---- MODULE Spec2Model ----
(***************************************************************************)
(* The Enso syntax tree: the node type Ast (a shared cell holding a Shape  *)
(* with an optional id and a stored span), the span algebra (HasSpan), the *)
(* wire encoding of Ast (Serialize / AstDeserializationVisitor) and the    *)
(* work-stack traversal (iterate_subtree).                                 *)
(*                                                                         *)
(* Values.  Option<T> is a sequence of length 0 or 1.  A Shape and every   *)
(* satellite type is a record whose tag field names the variant and whose  *)
(* other fields are the variant's fields.  A String is a TLA+ string; its  *)
(* number of code points is Len.  A computation that may panic returns     *)
(* Ok(n) or Panic(msg).                                                    *)
(***************************************************************************)
EXTENDS Integers, Sequences, FiniteSets, TLC

(* ----------------------------- bounds --------------------------------- *)

\* Most nodes a tree held by the caller may have.
MaxNodes == 3
\* Largest span a caller of new_with_span or a wire payload supplies.
MaxSpan == 2
\* Largest offset between the children of an application.
MaxOff == 1
\* Most segments of a text line whose span is computed.
MaxSegs == 2
\* Most lines of a text block or module whose span is computed.
MaxLines == 2
\* the most branches of a Tree
MaxBranches == 2
\* the holders of a shared node, and the handles one holder may have
MaxHolders == 2
MaxRefs == 2

(* ------------------------- Option and results -------------------------- *)

None == <<>>
Some(x) == <<x>>
IsSome(o) == Len(o) = 1
Unwrap(o) == o[1]

Ok(n) == [ok |-> TRUE, val |-> n]
Panic(m) == [ok |-> FALSE, msg |-> m]

\* the Err of a Result
Err(m) == [ok |-> FALSE, msg |-> m]

\* a + b on usize, evaluated left to right: the first panic unwinds.
Plus(a, b) == IF ~a.ok THEN a ELSE IF ~b.ok THEN b ELSE Ok(a.val + b.val)

RECURSIVE SumInts(_)
SumInts(s) == IF s = <<>> THEN 0 ELSE Head(s) + SumInts(Tail(s))

\* Iterator::sum over spans that may panic, in iteration order.
RECURSIVE SumRes(_)
SumRes(s) == IF s = <<>> THEN Ok(0) ELSE Plus(Head(s), SumRes(Tail(s)))

(* ------------------------------ Ast ------------------------------------ *)

\* WithSpan { wrapped, span } and WithID { wrapped, id }
WithSpan(shape, span) == [wrapped |-> shape, span |-> span]
WithID(with_span, id) == [wrapped |-> with_span, id |-> id]

\* Ast::new_with_span: the caller's span is stored as given.
new_with_span(shape, id, span) ==
    [wrapped |-> WithID(WithSpan(shape, span), id)]

\* Ast::shape and the fields reached through the Deref chain.
shape(ast) == ast.wrapped.wrapped.wrapped
IdOf(ast) == ast.wrapped.id
StoredSpan(ast) == ast.wrapped.wrapped.span

(* --------------------------- span algebra ------------------------------ *)

span_char(c) == 1
span_str(s) == Len(s)
span_opt_str(o) == IF IsSome(o) THEN span_str(Unwrap(o)) ELSE 0

NEWLINE == 1
BACKSLASH == 1
EXPR_QUOTE == 1
RAW_QUOTE == 1
FMT_QUOTE == 1
UNICODE16_INTRODUCER == 1
UNICODE21_OPENER == 2
UNICODE21_CLOSER == 1
UNICODE32_INTRODUCER == 1
BLANK_REPR == 1
BASE_SEPARATOR == 1
TEXT_BLOCK_QUOTE == 3

NotImplemented == "not implemented {}"
ModuleAssertion == "assertion failed: self.lines.len() > 0"

\* a builder span that follows only the first part of a concatenation
RECURSIVE span_Builder_first_only(_)
span_Builder_first_only(b) ==
    CASE b.tag = "Empty"  -> 0
      [] b.tag = "Letter" -> span_char(b.char)
      [] b.tag = "Space"  -> b.span
      [] b.tag = "Text"   -> span_str(b.str)
      [] b.tag = "Seq"    -> span_Builder_first_only(b.first)
RECURSIVE span_Builder(_)
span_Builder(b) ==
    CASE b.tag = "Empty"  -> 0
      [] b.tag = "Letter" -> span_char(b.char)
      [] b.tag = "Space"  -> b.span
      [] b.tag = "Text"   -> span_str(b.str)
      [] b.tag = "Seq"    -> span_Builder(b.first) + span_Builder(b.second)

span_RawEscape(e) ==
    CASE e.tag = "Unfinished" -> 0
      [] e.tag = "Invalid"    -> span_char(e.str)
      [] e.tag = "Slash"      -> 1
      [] e.tag = "Quote"      -> 1
      [] e.tag = "RawQuote"   -> 1

\* an escape-code span that leaves out the closer of the 21-bit form
span_Escape_unclosed(e) ==
    CASE e.tag = "Character" -> span_char(e.c)
      [] e.tag = "Control"   -> span_str(e.name)
      [] e.tag = "Number"    -> span_str(e.digits)
      [] e.tag = "Unicode16" -> UNICODE16_INTRODUCER + span_str(e.digits)
      [] e.tag = "Unicode21" -> UNICODE21_OPENER + span_str(e.digits)
      [] e.tag = "Unicode32" -> UNICODE32_INTRODUCER + span_str(e.digits)

span_Escape(e) ==
    CASE e.tag = "Character" -> span_char(e.c)
      [] e.tag = "Control"   -> span_str(e.name)
      [] e.tag = "Number"    -> span_str(e.digits)
      [] e.tag = "Unicode16" -> UNICODE16_INTRODUCER + span_str(e.digits)
      [] e.tag = "Unicode21" ->
             UNICODE21_OPENER + span_str(e.digits) + UNICODE21_CLOSER
      [] e.tag = "Unicode32" -> UNICODE32_INTRODUCER + span_str(e.digits)

span_SegmentPlain(s) == span_str(s.value)
span_SegmentRawEscape(s) == span_RawEscape(s.code) + BACKSLASH
span_SegmentEscape(s) == BACKSLASH + span_Escape(s.code)

span_SegmentRaw(s) ==
    CASE s.tag = "SegmentPlain"     -> span_SegmentPlain(s)
      [] s.tag = "SegmentRawEscape" -> span_SegmentRawEscape(s)

RECURSIVE HasSpan_Ast(_)
RECURSIVE HasSpan_Shape(_)

\* Option<T>::span for T = Ast
span_opt_ast(o) == IF IsSome(o) THEN HasSpan_Ast(Unwrap(o)) ELSE Ok(0)

span_SegmentExpr(s) == Plus(span_opt_ast(s.value), Ok(2 * EXPR_QUOTE))

span_SegmentFmt(s) ==
    CASE s.tag = "SegmentPlain"     -> Ok(span_SegmentPlain(s))
      [] s.tag = "SegmentRawEscape" -> Ok(span_SegmentRawEscape(s))
      [] s.tag = "SegmentExpr"      -> span_SegmentExpr(s)
      [] s.tag = "SegmentEscape"    -> Ok(span_SegmentEscape(s))

\* Vec<SegmentRaw>::span and Vec<SegmentFmt<T>>::span
span_vec_SegmentRaw(v) ==
    SumInts([i \in 1..Len(v) |-> span_SegmentRaw(v[i])])
span_vec_SegmentFmt(v) ==
    SumRes([i \in 1..Len(v) |-> span_SegmentFmt(v[i])])

\* a line span that counts the blank lines and not the line itself
span_TextBlockLineRaw_no_own_line(line, block_offset) ==
    LET line_count        == Len(line.empty_lines)
        empty_lines_space == SumInts(line.empty_lines)
        line_breaks       == line_count * NEWLINE
    IN  empty_lines_space + line_breaks + block_offset
            + span_vec_SegmentRaw(line.text)

\* TextBlockLine::span(block_offset), over raw and over formatted segments
span_TextBlockLineRaw(line, block_offset) ==
    LET line_count        == Len(line.empty_lines) + 1
        empty_lines_space == SumInts(line.empty_lines)
        line_breaks       == line_count * NEWLINE
    IN  empty_lines_space + line_breaks + block_offset
            + span_vec_SegmentRaw(line.text)
span_TextBlockLineFmt(line, block_offset) ==
    LET line_count        == Len(line.empty_lines) + 1
        empty_lines_space == SumInts(line.empty_lines)
        line_breaks       == line_count * NEWLINE
    IN  Plus(Ok(empty_lines_space + line_breaks + block_offset),
             span_vec_SegmentFmt(line.text))

span_Unrecognized(s) == span_str(s.str)
span_InvalidQuote(s) == span_Builder(s.quote)
span_InlineBlock(s) == span_Builder(s.quote)
span_Blank(s) == BLANK_REPR
span_Var(s) == span_str(s.name)
span_Cons(s) == span_str(s.name)
span_Opr(s) == span_str(s.name)
span_Mod(s) == span_str(s.name) + 1
span_InvalidSuffix(s) == Plus(HasSpan_Ast(s.elem), Ok(span_str(s.suffix)))
\* a number span that leaves out the separator after the base
span_Number_no_separator(s) == span_opt_str(s.base) + span_str(s.int)
span_Number(s) ==
    LET base_span == IF IsSome(s.base)
                     THEN span_str(Unwrap(s.base)) + BASE_SEPARATOR
                     ELSE 0
    IN  base_span + span_str(s.int)
span_DanglingBase(s) == span_str(s.base) + BASE_SEPARATOR
span_TextLineRaw(s) == 2 * RAW_QUOTE + span_vec_SegmentRaw(s.text)
\* a line span that counts one quote
span_TextLineFmt_one_quote(s) ==
    Plus(Ok(FMT_QUOTE), span_vec_SegmentFmt(s.text))
span_TextLineFmt(s) == Plus(Ok(2 * FMT_QUOTE), span_vec_SegmentFmt(s.text))
span_TextBlockRaw(s) ==
    LET line_spans == [i \in 1..Len(s.text) |->
                          span_TextBlockLineRaw(s.text[i], s.offset)]
    IN  TEXT_BLOCK_QUOTE + s.spaces + SumInts(line_spans)
span_TextBlockFmt(s) ==
    LET line_spans == [i \in 1..Len(s.text) |->
                          span_TextBlockLineFmt(s.text[i], s.offset)]
    IN  Plus(Ok(TEXT_BLOCK_QUOTE + s.spaces), SumRes(line_spans))
span_TextLine(l) ==
    CASE l.tag = "TextLineRaw" -> Ok(span_TextLineRaw(l))
      [] l.tag = "TextLineFmt" -> span_TextLineFmt(l)
\* an unclosed line given the span of the whole line
span_TextUnclosed_whole_line(s) == span_TextLine(s.line)
\* usize subtraction: below zero it panics (checked build)
span_TextUnclosed(s) ==
    LET line == span_TextLine(s.line)
    IN  IF ~line.ok THEN line
        ELSE IF line.val = 0 THEN Panic("attempt to subtract with overflow")
        ELSE Ok(line.val - 1)
span_Prefix(s) ==
    LET func == HasSpan_Ast(s.func)
        arg  == HasSpan_Ast(s.arg)
    IN  Plus(Plus(func, Ok(s.off)), arg)
\* an infix span that leaves out the offset after the operator
span_Infix_no_roff(s) ==
    Plus(Plus(Plus(HasSpan_Ast(s.larg), Ok(s.loff)), HasSpan_Ast(s.opr)),
         HasSpan_Ast(s.rarg))
span_Infix(s) ==
    Plus(Plus(Plus(Plus(HasSpan_Ast(s.larg), Ok(s.loff)),
                   HasSpan_Ast(s.opr)), Ok(s.roff)), HasSpan_Ast(s.rarg))
span_SectionLeft(s) ==
    Plus(Plus(HasSpan_Ast(s.arg), Ok(s.off)), HasSpan_Ast(s.opr))
span_SectionRight(s) ==
    Plus(Plus(HasSpan_Ast(s.opr), Ok(s.off)), HasSpan_Ast(s.arg))
span_SectionSides(s) == HasSpan_Ast(s.opr)
\* BlockLine<T>::span for T = Ast and for T = Option<Ast>
span_BlockLine(l) == Plus(HasSpan_Ast(l.elem), Ok(l.off))
span_BlockLineOpt(l) == Plus(span_opt_ast(l.elem), Ok(l.off))
\* a module span that counts a newline after every line
span_Module_break_per_line(s) ==
    IF ~(Len(s.lines) > 0) THEN Panic(ModuleAssertion)
    ELSE Plus(SumRes([i \in 1..Len(s.lines) |->
                         span_BlockLineOpt(s.lines[i])]),
              Ok(Len(s.lines) * NEWLINE))
span_Module(s) ==
    IF ~(Len(s.lines) > 0) THEN Panic(ModuleAssertion)
    ELSE LET break_count == Len(s.lines) - 1
             breaks_span == break_count * NEWLINE
             lines_span  == SumRes([i \in 1..Len(s.lines) |->
                                       span_BlockLineOpt(s.lines[i])])
         IN  Plus(lines_span, Ok(breaks_span))
\* a block span that indents every remaining line, empty ones too
span_Block_indent_every_line(s) ==
    LET line_span(line) ==
            Plus(Ok(NEWLINE + s.indent), span_BlockLineOpt(line))
        head_span   == IF s.is_orphan THEN 0 ELSE 1
        empty_lines == SumInts([i \in 1..Len(s.empty_lines) |->
                                   s.empty_lines[i] + 1])
        first_line  == Plus(Ok(s.indent), span_BlockLine(s.first_line))
        lines       == SumRes([i \in 1..Len(s.lines) |->
                                   line_span(s.lines[i])])
    IN  Plus(Plus(Ok(head_span + empty_lines), first_line), lines)
span_Block(s) ==
    LET line_span(line) ==
            LET indent == IF IsSome(line.elem) THEN s.indent ELSE 0
            IN  Plus(Ok(NEWLINE + indent), span_BlockLineOpt(line))
        head_span   == IF s.is_orphan THEN 0 ELSE 1
        empty_lines == SumInts([i \in 1..Len(s.empty_lines) |->
                                   s.empty_lines[i] + 1])
        first_line  == Plus(Ok(s.indent), span_BlockLine(s.first_line))
        lines       == SumRes([i \in 1..Len(s.lines) |->
                                   line_span(s.lines[i])])
    IN  Plus(Plus(Ok(head_span + empty_lines), first_line), lines)

\* a catch-all arm that answers with a number instead of failing
not_implemented_zero(s) == Ok(0)

\* the catch-all arm of the dispatch: panic!("not implemented {}")
not_implemented(s) == Panic(NotImplemented)

\* impl HasSpan for Shape: the dispatch lists 23 variants; every other
\* variant reaches the catch-all arm.
HasSpan_Shape(s) ==
    CASE s.tag = "Unrecognized"  -> Ok(span_Unrecognized(s))
      [] s.tag = "InvalidQuote"  -> Ok(span_InvalidQuote(s))
      [] s.tag = "InlineBlock"   -> Ok(span_InlineBlock(s))
      [] s.tag = "Blank"         -> Ok(span_Blank(s))
      [] s.tag = "Var"           -> Ok(span_Var(s))
      [] s.tag = "Cons"          -> Ok(span_Cons(s))
      [] s.tag = "Opr"           -> Ok(span_Opr(s))
      [] s.tag = "Mod"           -> Ok(span_Mod(s))
      [] s.tag = "InvalidSuffix" -> span_InvalidSuffix(s)
      [] s.tag = "Number"        -> Ok(span_Number(s))
      [] s.tag = "DanglingBase"  -> Ok(span_DanglingBase(s))
      [] s.tag = "TextLineRaw"   -> Ok(span_TextLineRaw(s))
      [] s.tag = "TextLineFmt"   -> span_TextLineFmt(s)
      [] s.tag = "TextBlockRaw"  -> Ok(span_TextBlockRaw(s))
      [] s.tag = "TextBlockFmt"  -> span_TextBlockFmt(s)
      [] s.tag = "TextUnclosed"  -> span_TextUnclosed(s)
      [] s.tag = "Prefix"        -> span_Prefix(s)
      [] s.tag = "Infix"         -> span_Infix(s)
      [] s.tag = "SectionLeft"   -> span_SectionLeft(s)
      [] s.tag = "SectionRight"  -> span_SectionRight(s)
      [] s.tag = "SectionSides"  -> span_SectionSides(s)
      [] s.tag = "Module"        -> span_Module(s)
      [] s.tag = "Block"         -> span_Block(s)
      [] OTHER                   -> not_implemented(s)

\* impl HasSpan for Ast: self.wrapped.span().  WithSpan has no HasSpan (its
\* impl is commented out), so neither Rc<WithID<WithSpan<..>>> nor
\* WithID<WithSpan<..>> has one, and the call resolves through the Deref
\* chain to Shape<Ast>::span: the span is computed from the shape.
HasSpan_Ast(ast) == HasSpan_Shape(shape(ast))

\* impl HasSpan for MacroPatternMatchRaw: a constant, not used by the
\* dispatch of Shape.
span_MacroPatternMatchRaw(m) == 0

(* ---------------------- construction of nodes -------------------------- *)

\* a constructor that leaves the span at its default instead of computing it
Ast_new_unspanned(shape_, id) == Ok(new_with_span(shape_, id, 0))

\* Ast::new: the span is computed from the shape; a panic in the span
\* computation unwinds and no node is built.
Ast_new(shape_, id) ==
    LET span == HasSpan_Shape(shape_)
    IN  IF span.ok THEN Ok(new_with_span(shape_, id, span.val)) ELSE span

\* a conversion that fills the id with a value of its own
Ast_from_fresh_id(t) == Ast_new(t, Some(1))

\* impl From<T> for Ast: id filled with None.
Ast_from(t) == Ast_new(t, None)

Var(name) == [tag |-> "Var", name |-> name]

\* Ast::var, the smart constructor.
Ast_var(name) == Ast_from(Var(name)).val

(* ----------------------------- JSON ------------------------------------ *)

JNull == [j |-> "null"]
JStr(s) == [j |-> "str", v |-> s]
JNum(n) == [j |-> "num", v |-> n]
JBool(b) == [j |-> "bool", v |-> b]
JArr(items) == [j |-> "arr", v |-> items]
\* an object is the sequence of its <<key, value>> entries, in wire order
JObj(entries) == [j |-> "obj", v |-> entries]

Keys(obj) == [i \in 1..Len(obj.v) |-> obj.v[i][1]]
HasKey(obj, key) == \E i \in 1..Len(obj.v) : obj.v[i][1] = key
\* the value of the first entry with this key
Lookup(obj, key) ==
    obj.v[CHOOSE i \in 1..Len(obj.v) :
              /\ obj.v[i][1] = key
              /\ \A k \in 1..(i - 1) : obj.v[k][1] # key][2]

\* ast_schema
SHAPE == "shape"
ID == "id"
SPAN == "span"

\* Uuid <-> its hyphenated text
UuidText ==
    << "51e74fb9-75a4-499d-9ea3-a90a2663b4a1",
       "00000000-0000-0000-0000-000000000015" >>
Uuids == 1..Len(UuidText)
Uuid_to_string(u) == UuidText[u]
Uuid_parse_str(s) ==
    IF \E u \in Uuids : UuidText[u] = s
    THEN Ok(CHOOSE u \in Uuids : UuidText[u] = s)
    ELSE Err("invalid uuid")

(* The field types of the serialized declarations.  A kind is one of the   *)
(* types below; a struct or enum variant is the sequence of its fields.    *)
KStr == [k |-> "str"]
KUsize == [k |-> "usize"]
KBool == [k |-> "bool"]
KUuid == [k |-> "uuid"]
KAst == [k |-> "ast"]
KOpt(of) == [k |-> "opt", of |-> of]
KVec(of) == [k |-> "vec", of |-> of]
KPair(a, b) == [k |-> "pair", a |-> a, b |-> b]
KStruct(name) == [k |-> "struct", name |-> name]
KEnum(name) == [k |-> "enum", name |-> name]

\* the fields of the structs declared beside Shape
StructFields(name) ==
    CASE name = "Unit" -> <<>>
      [] name = "BlockLineOpt" ->
             << <<"elem", KOpt(KAst)>>, <<"off", KUsize>> >>
      [] name = "BlockLine" -> << <<"elem", KAst>>, <<"off", KUsize>> >>
      [] name = "ShiftedAst" -> << <<"wrapped", KAst>>, <<"off", KUsize>> >>
      [] name = "Tree" ->
             << <<"value", KOpt(KStruct("Unit"))>>,
                <<"branches", KVec(KPair(KAst, KStruct("Tree")))>> >>
      [] name = "MacroMatchSegment" ->
             << <<"head", KAst>>, <<"body", KEnum("MacroPatternMatchRaw")>> >>
      [] name = "ShiftedMacroMatchSegment" ->
             << <<"wrapped", KStruct("MacroMatchSegment")>>,
                <<"off", KUsize>> >>
      [] name = "ShiftedVec1MacroMatchSegment" ->
             << <<"head", KStruct("MacroMatchSegment")>>,
                <<"tail", KVec(KStruct("ShiftedMacroMatchSegment"))>> >>
      [] name = "MacroAmbiguousSegment" ->
             << <<"head", KAst>>, <<"body", KOpt(KStruct("ShiftedAst"))>> >>
      [] name = "ShiftedMacroAmbiguousSegment" ->
             << <<"wrapped", KStruct("MacroAmbiguousSegment")>>,
                <<"off", KUsize>> >>
      [] name = "ShiftedVec1MacroAmbiguousSegment" ->
             << <<"head", KStruct("MacroAmbiguousSegment")>>,
                <<"tail", KVec(KStruct("ShiftedMacroAmbiguousSegment"))>> >>
      [] name = "MacroPatternRawBegin" -> <<>>
      [] name = "MacroPatternRawEnd" -> <<>>
      [] name = "MacroPatternRawNothing" -> <<>>

\* the fields of each variant of Shape<Ast>
ShapeFields(tag) ==
    CASE tag = "Unrecognized"  -> << <<"str", KStr>> >>
      [] tag = "Blank"         -> <<>>
      [] tag = "Var"           -> << <<"name", KStr>> >>
      [] tag = "Cons"          -> << <<"name", KStr>> >>
      [] tag = "Opr"           -> << <<"name", KStr>> >>
      [] tag = "Mod"           -> << <<"name", KStr>> >>
      [] tag = "InvalidSuffix" -> << <<"elem", KAst>>, <<"suffix", KStr>> >>
      [] tag = "Number"        ->
             << <<"base", KOpt(KStr)>>, <<"int", KStr>> >>
      [] tag = "DanglingBase"  -> << <<"base", KStr>> >>
      [] tag = "Prefix"        ->
             << <<"func", KAst>>, <<"off", KUsize>>, <<"arg", KAst>> >>
      [] tag = "Infix"         ->
             << <<"larg", KAst>>, <<"loff", KUsize>>, <<"opr", KAst>>,
                <<"roff", KUsize>>, <<"rarg", KAst>> >>
      [] tag = "SectionLeft"   ->
             << <<"arg", KAst>>, <<"off", KUsize>>, <<"opr", KAst>> >>
      [] tag = "SectionRight"  ->
             << <<"opr", KAst>>, <<"off", KUsize>>, <<"arg", KAst>> >>
      [] tag = "SectionSides"  -> << <<"opr", KAst>> >>
      [] tag = "Module"        ->
             << <<"lines", KVec(KStruct("BlockLineOpt"))>> >>
      [] tag = "Match"         ->
             << <<"pfx", KOpt(KEnum("MacroPatternMatchRaw"))>>,
                <<"segs", KStruct("ShiftedVec1MacroMatchSegment")>>,
                <<"resolved", KAst>> >>
      [] tag = "Ambiguous"     ->
             << <<"segs", KStruct("ShiftedVec1MacroAmbiguousSegment")>>,
                <<"paths", KStruct("Tree")>> >>
      [] tag = "Comment"       -> << <<"lines", KVec(KStr)>> >>
      [] tag = "Import"        -> << <<"path", KVec(KAst)>> >>
      [] tag = "Mixfix"        ->
             << <<"name", KVec(KAst)>>, <<"args", KVec(KAst)>> >>
      [] tag = "Group"         -> << <<"body", KOpt(KAst)>> >>
      [] tag = "Def"           ->
             << <<"name", KAst>>, <<"args", KVec(KAst)>>,
                <<"body", KOpt(KAst)>> >>
      [] tag = "Foreign"       ->
             << <<"indent", KUsize>>, <<"lang", KStr>>,
                <<"code", KVec(KStr)>> >>

\* the fields of the boundary and structural variants of
\* MacroPatternMatchRaw that carry no captured payload
MacroPatternMatchRawFields(tag) ==
    CASE tag = "Begin"   -> << <<"pat", KStruct("MacroPatternRawBegin")>> >>
      [] tag = "End"     -> << <<"pat", KStruct("MacroPatternRawEnd")>> >>
      [] tag = "Nothing" -> << <<"pat", KStruct("MacroPatternRawNothing")>> >>

EnumFields(name, tag) ==
    CASE name = "Shape" -> ShapeFields(tag)
      [] name = "MacroPatternMatchRaw" -> MacroPatternMatchRawFields(tag)

(* ------------------- Serialize (Ast and derived) ----------------------- *)

RECURSIVE Serialize(_, _)
RECURSIVE Ast_serialize(_)

\* the fields of a struct or of an enum variant, in declaration order
SerializeFields(fields, v) ==
    [i \in 1..Len(fields) |->
        <<fields[i][1], Serialize(fields[i][2], v[fields[i][1]])>>]

\* derive(Serialize): a struct is an object of its fields, an enum value an
\* object with the variant's name as its one key, None is null.
Serialize(kind, v) ==
    CASE kind.k = "str"    -> JStr(v)
      [] kind.k = "usize"  -> JNum(v)
      [] kind.k = "bool"   -> JBool(v)
      [] kind.k = "uuid"   -> JStr(Uuid_to_string(v))
      [] kind.k = "ast"    -> Ast_serialize(v)
      [] kind.k = "opt"    ->
             IF IsSome(v) THEN Serialize(kind.of, Unwrap(v)) ELSE JNull
      [] kind.k = "vec"    ->
             JArr([i \in 1..Len(v) |-> Serialize(kind.of, v[i])])
      [] kind.k = "pair"   ->
             JArr(<<Serialize(kind.a, v[1]), Serialize(kind.b, v[2])>>)
      [] kind.k = "struct" ->
             JObj(SerializeFields(StructFields(kind.name), v))
      [] kind.k = "enum"   ->
             JObj(<< <<v.tag,
                       JObj(SerializeFields(EnumFields(kind.name, v.tag), v))
                     >> >>)

\* a serializer that writes the id field always, null when it is None
Ast_serialize_null_id(ast) ==
    JObj(<< <<SHAPE, Serialize(KEnum("Shape"), shape(ast))>>,
            <<ID, Serialize(KOpt(KUuid), IdOf(ast))>>,
            <<SPAN, Serialize(KUsize, StoredSpan(ast))>> >>)

\* impl Serialize for Ast: shape, then id only if it is Some, then span.
Ast_serialize(ast) ==
    JObj(   << <<SHAPE, Serialize(KEnum("Shape"), shape(ast))>> >>
         \o (IF IsSome(IdOf(ast))
             THEN << <<ID, Serialize(KOpt(KUuid), IdOf(ast))>> >>
             ELSE <<>>)
         \o << <<SPAN, Serialize(KUsize, StoredSpan(ast))>> >>)

(* ------------------ Deserialize (Ast and derived) ---------------------- *)

missing_field(f) == Err("missing field " \o f)
invalid_type == Err("invalid type")

\* the first failure of a sequence of results
FirstErr(rs) ==
    rs[CHOOSE i \in 1..Len(rs) :
           ~rs[i].ok /\ \A k \in 1..(i - 1) : rs[k].ok]
AllOk(rs) == \A i \in 1..Len(rs) : rs[i].ok

FieldIndex(fields, f) == CHOOSE i \in 1..Len(fields) : fields[i][1] = f
FieldNames(fields) == {fields[i][1] : i \in 1..Len(fields)}

RECURSIVE Deserialize(_, _)
RECURSIVE Ast_deserialize(_)

\* a field absent from the object is a missing-field error, unless it
\* is an Option, which is then None
DeserializeFields(fields, obj) ==
    [i \in 1..Len(fields) |->
        IF HasKey(obj, fields[i][1])
        THEN Deserialize(fields[i][2], Lookup(obj, fields[i][1]))
        ELSE IF fields[i][2].k = "opt" THEN Ok(None)
        ELSE missing_field(fields[i][1])]

\* derive(Deserialize)
Deserialize(kind, json) ==
    CASE kind.k = "str"    ->
             IF json.j = "str" THEN Ok(json.v) ELSE invalid_type
      [] kind.k = "usize"  ->
             IF json.j = "num" THEN Ok(json.v) ELSE invalid_type
      [] kind.k = "bool"   ->
             IF json.j = "bool" THEN Ok(json.v) ELSE invalid_type
      [] kind.k = "uuid"   ->
             IF json.j = "str" THEN Uuid_parse_str(json.v) ELSE invalid_type
      [] kind.k = "ast"    -> Ast_deserialize(json)
      [] kind.k = "opt"    ->
             IF json.j = "null" THEN Ok(None)
             ELSE LET r == Deserialize(kind.of, json)
                  IN  IF r.ok THEN Ok(Some(r.val)) ELSE r
      [] kind.k = "vec"    ->
             IF json.j # "arr" THEN invalid_type
             ELSE LET rs == [i \in 1..Len(json.v) |->
                                Deserialize(kind.of, json.v[i])]
                  IN  IF AllOk(rs)
                      THEN Ok([i \in 1..Len(rs) |-> rs[i].val])
                      ELSE FirstErr(rs)
      [] kind.k = "pair"   ->
             IF json.j # "arr" \/ Len(json.v) # 2 THEN invalid_type
             ELSE LET a == Deserialize(kind.a, json.v[1])
                      b == Deserialize(kind.b, json.v[2])
                  IN  IF ~a.ok THEN a ELSE IF ~b.ok THEN b
                      ELSE Ok(<<a.val, b.val>>)
      [] kind.k = "struct" ->
             IF json.j # "obj" THEN invalid_type
             ELSE LET fields == StructFields(kind.name)
                      rs     == DeserializeFields(fields, json)
                  IN  IF AllOk(rs)
                      THEN Ok([f \in FieldNames(fields) |->
                                  rs[FieldIndex(fields, f)].val])
                      ELSE FirstErr(rs)
      [] kind.k = "enum"   ->
             IF json.j # "obj" \/ Len(json.v) # 1 \/ json.v[1][2].j # "obj"
             THEN invalid_type
             ELSE LET tag    == json.v[1][1]
                      fields == EnumFields(kind.name, tag)
                      rs     == DeserializeFields(fields, json.v[1][2])
                  IN  IF AllOk(rs)
                      THEN Ok([f \in FieldNames(fields) \cup {"tag"} |->
                                  IF f = "tag" THEN tag
                                  ELSE rs[FieldIndex(fields, f)].val])
                      ELSE FirstErr(rs)

\* AstDeserializationVisitor::visit_map, the loop over the entries: st holds
\* the three locals shape, id and span, and err the error that `?` returns.
RECURSIVE visit_map_loop(_, _)
visit_map_loop(entries, st) ==
    IF entries = <<>> THEN st
    ELSE LET key == Head(entries)[1]
             val == Head(entries)[2]
         IN  CASE key = SHAPE ->
                      LET r == Deserialize(KEnum("Shape"), val)
                      IN  IF r.ok
                          THEN visit_map_loop(Tail(entries),
                                   [st EXCEPT !.shape = Some(r.val)])
                          ELSE [st EXCEPT !.err = Some(r)]
               [] key = ID ->
                      LET r == Deserialize(KOpt(KUuid), val)
                      IN  IF r.ok
                          THEN visit_map_loop(Tail(entries),
                                   [st EXCEPT !.id = Some(r.val)])
                          ELSE [st EXCEPT !.err = Some(r)]
               [] key = SPAN ->
                      LET r == Deserialize(KUsize, val)
                      IN  IF r.ok
                          THEN visit_map_loop(Tail(entries),
                                   [st EXCEPT !.span = Some(r.val)])
                          ELSE [st EXCEPT !.err = Some(r)]
               [] OTHER -> visit_map_loop(Tail(entries), st)

visit_map_start == [shape |-> None, id |-> None, span |-> None, err |-> None]

\* a visitor that builds the node with Ast::new, computing the span afresh
visit_map_via_new(map) ==
    LET st == visit_map_loop(map, visit_map_start)
    IN  IF IsSome(st.err) THEN Unwrap(st.err)
        ELSE IF ~IsSome(st.shape) THEN missing_field(SHAPE)
        ELSE IF ~IsSome(st.span) THEN missing_field(SPAN)
        ELSE Ast_new(Unwrap(st.shape),
                     IF IsSome(st.id) THEN Unwrap(st.id) ELSE None)

\* a visitor that defaults a missing span to 0
visit_map_default_span(map) ==
    LET st == visit_map_loop(map, visit_map_start)
    IN  IF IsSome(st.err) THEN Unwrap(st.err)
        ELSE IF ~IsSome(st.shape) THEN missing_field(SHAPE)
        ELSE Ok(new_with_span(Unwrap(st.shape),
                              IF IsSome(st.id) THEN Unwrap(st.id) ELSE None,
                              IF IsSome(st.span) THEN Unwrap(st.span) ELSE 0))

\* visit_map: shape and span are required, a missing id is None.
visit_map(map) ==
    LET st == visit_map_loop(map, visit_map_start)
    IN  IF IsSome(st.err) THEN Unwrap(st.err)
        ELSE IF ~IsSome(st.shape) THEN missing_field(SHAPE)
        ELSE IF ~IsSome(st.span) THEN missing_field(SPAN)
        ELSE LET id == IF IsSome(st.id) THEN Unwrap(st.id) ELSE None
             IN  Ok(new_with_span(Unwrap(st.shape), id, Unwrap(st.span)))

\* impl Deserialize for Ast
Ast_deserialize(json) ==
    IF json.j # "obj" THEN invalid_type ELSE visit_map(json.v)

(* ------------------------ children and paths --------------------------- *)

RECURSIVE Concat(_)
Concat(ss) == IF ss = <<>> THEN <<>> ELSE Head(ss) \o Concat(Tail(ss))

\* the Ast values a value of the given type holds, in field order (the
\* children themselves, not their descendants)
RECURSIVE Asts(_, _)
AstsOfFields(fields, v) ==
    Concat([i \in 1..Len(fields) |-> Asts(fields[i][2], v[fields[i][1]])])
Asts(kind, v) ==
    CASE kind.k \in {"str", "usize", "bool", "uuid"} -> <<>>
      [] kind.k = "ast"    -> <<v>>
      [] kind.k = "opt"    ->
             IF IsSome(v) THEN Asts(kind.of, Unwrap(v)) ELSE <<>>
      [] kind.k = "vec"    ->
             Concat([i \in 1..Len(v) |-> Asts(kind.of, v[i])])
      [] kind.k = "pair"   -> Asts(kind.a, v[1]) \o Asts(kind.b, v[2])
      [] kind.k = "struct" -> AstsOfFields(StructFields(kind.name), v)
      [] kind.k = "enum"   -> AstsOfFields(EnumFields(kind.name, v.tag), v)

\* IntoIterator for &Ast: self.shape().into_iter(), the child nodes in
\* left-to-right field order
into_iter(ast) == Asts(KEnum("Shape"), shape(ast))

\* a node of a tree is named by its path: the child indices from the root
RECURSIVE NodeAt(_, _)
NodeAt(ast, path) ==
    IF path = <<>> THEN ast
    ELSE NodeAt(into_iter(ast)[Head(path)], Tail(path))

RECURSIVE NodeCount(_)
NodeCount(ast) ==
    LET kids == into_iter(ast)
    IN  1 + SumInts([i \in 1..Len(kids) |-> NodeCount(kids[i])])

RECURSIVE SubtreePaths(_)
SubtreePaths(ast) ==
    LET kids == into_iter(ast)
    IN  {<<>>} \cup UNION { { <<i>> \o p : p \in SubtreePaths(kids[i]) } :
                             i \in 1..Len(kids) }

(* ----------------------------- inputs ---------------------------------- *)

Names == {"a", "foo"}
Ids == {None, Some(1)}
\* the spans a caller or a peer supplies, and the offsets between children
Spans == {0, MaxSpan}
Offs == {0, MaxOff}

Blank == [tag |-> "Blank"]
Number(base, int) == [tag |-> "Number", base |-> base, int |-> int]
Module(lines) == [tag |-> "Module", lines |-> lines]
Comment(lines) == [tag |-> "Comment", lines |-> lines]
Foreign(indent, lang, code) ==
    [tag |-> "Foreign", indent |-> indent, lang |-> lang, code |-> code]
Import(path) == [tag |-> "Import", path |-> path]
Mixfix(name, args) == [tag |-> "Mixfix", name |-> name, args |-> args]
Group(body) == [tag |-> "Group", body |-> body]
Def(name, args, body) ==
    [tag |-> "Def", name |-> name, args |-> args, body |-> body]
Prefix(func, off, arg) ==
    [tag |-> "Prefix", func |-> func, off |-> off, arg |-> arg]
Infix(larg, loff, opr, roff, rarg) ==
    [tag |-> "Infix", larg |-> larg, loff |-> loff, opr |-> opr,
     roff |-> roff, rarg |-> rarg]
SectionSides(opr) == [tag |-> "SectionSides", opr |-> opr]
BlockLine(elem, off) == [elem |-> elem, off |-> off]
\* Unit {} and the field-less pattern structs: the empty record
Unit == <<>>
\* a tree that keeps one branch per key, the first one supplied
Tree_one_per_key(value, branches) ==
    LET firsts == SelectSeq([i \in 1..Len(branches) |-> i],
                            LAMBDA i : \A k \in 1..(i - 1) :
                                          branches[k][1] # branches[i][1])
    IN  [value |-> value,
         branches |-> [j \in 1..Len(firsts) |-> branches[firsts[j]]]]
\* Tree { value, branches }: branches is a Vec of (key, subtree) pairs
Tree(value, branches) == [value |-> value, branches |-> branches]
MatchNothing == [tag |-> "Nothing", pat |-> Unit]
Match(pfx, head, body, resolved) ==
    [tag |-> "Match", pfx |-> pfx,
     segs |-> [head |-> [head |-> head, body |-> body], tail |-> <<>>],
     resolved |-> resolved]
Ambiguous(head, body, paths) ==
    [tag |-> "Ambiguous",
     segs |-> [head |-> [head |-> head, body |-> body], tail |-> <<>>],
     paths |-> paths]

\* shapes without child nodes
LeafShapes ==
       { Var(n) : n \in Names }
    \cup { Blank, Number(None, "1"), Number(Some("16"), "ff"),
           Module(<<>>), Comment(<<"c">>), Foreign(0, "js", <<>>),
           Import(<<>>), Mixfix(<<>>, <<>>), Group(None) }

\* shapes that hold the node h, beside the fresh variable Ast::var("a")
ShapesOver(h) ==
    LET a == Ast_var("a")
    IN     { SectionSides(h), Infix(h, 0, a, 0, a),
             Module(<<BlockLine(Some(h), 0), BlockLine(None, 1)>>),
             Def(h, <<>>, None), Match(None, h, MatchNothing, a),
             Ambiguous(h, None, Tree(None, <<>>)) }
      \cup { Prefix(h, off, a) : off \in Offs }
      \cup { Prefix(a, off, h) : off \in Offs }
      \cup { Prefix(h, off, h) : off \in Offs }

ShapeNodeCount(s) ==
    LET kids == Asts(KEnum("Shape"), s)
    IN  1 + SumInts([i \in 1..Len(kids) |-> NodeCount(kids[i])])

\* nodes a peer may hold: built by its own constructor from any shape
PeerNodes ==
       { new_with_span(Var("a"), id, n) : id \in Ids, n \in Spans }
    \cup { new_with_span(s, None, 1) :
             s \in { Group(Some(Ast_var("a"))), Import(<<Ast_var("a")>>),
                     Def(Ast_var("a"), <<>>, None),
                     Ambiguous(Ast_var("a"), None,
                               Tree(Some(Unit),
                                    << <<Ast_var("a"), Tree(None, <<>>)>>,
                                       <<Ast_var("a"), Tree(None, <<>>)>> >>))
                   } }

WithoutKey(obj, key) == JObj(SelectSeq(obj.v, LAMBDA e : e[1] # key))
Reversed(obj) == JObj([i \in 1..Len(obj.v) |-> obj.v[Len(obj.v) + 1 - i]])

\* payloads with any of the three fields left out, with a null id, or
\* with the fields in another order
Mangled(obj) ==
    LET drops == { obj, WithoutKey(obj, SHAPE), WithoutKey(obj, SPAN),
                   WithoutKey(obj, ID),
                   WithoutKey(WithoutKey(obj, SHAPE), SPAN),
                   WithoutKey(WithoutKey(obj, SHAPE), ID),
                   WithoutKey(WithoutKey(obj, SPAN), ID),
                   JObj(<<>>) }
    IN  drops \cup { Reversed(o) : o \in drops }
              \cup { JObj(<< <<ID, JNull>> >> \o WithoutKey(obj, ID).v) }

LeafPayloads ==
    UNION { Mangled(Ast_serialize(new_with_span(Var("a"), id, n))) :
              id \in Ids, n \in Spans }

\* a well-keyed parent whose child object is one of the payloads above
NestedPayloads ==
    { JObj(<< <<SHAPE, JObj(<< <<"SectionSides",
                                 JObj(<< <<"opr", c>> >>)>> >>)>>,
              <<SPAN, JNum(1)>> >>) : c \in LeafPayloads }

PeerPayloads ==
    { Ast_serialize(x) : x \in PeerNodes } \cup LeafPayloads
        \cup NestedPayloads

(* --------------------------- the program ------------------------------- *)

VARIABLES
    ast,      \* Option<Ast>: the node the caller holds
    last,     \* the last operation, its input and what it returned
    nodes,    \* iterate_subtree: the work stack, a sequence of paths
    yielded,  \* the paths the iterator has yielded so far
    pc,       \* "idle", "running" (an iterator is live), "done", "crashed"
    strong,   \* the strong count in the Rc box of a node several hold
    alive,    \* that node has not been dropped
    holders   \* for each holder: its handles and its place in clone / drop

vars == <<ast, last, nodes, yielded, pc, strong, alive, holders>>
rcvars == <<strong, alive, holders>>

\* one caller alone: no node is held by several holders
Unshared ==
    /\ strong = 0
    /\ alive = FALSE
    /\ holders = <<>>

Init ==
    /\ Unshared
    /\ ast = None
    /\ last = [op |-> "none"]
    /\ nodes = <<>>
    /\ yielded = <<>>
    /\ pc = "idle"

\* The caller holds at most one node.  Holding none, it builds a node
\* from a shape without children or receives one from a peer; holding one,
\* it builds the next node around it.
ShapeInputs ==
    IF IsSome(ast) THEN ShapesOver(Unwrap(ast)) ELSE LeafShapes

\* the shapes the caller passes with a span of its own
SpanShapeInputs ==
    IF IsSome(ast) THEN {} ELSE { Var("a"), Comment(<<"c">>) }

CanCall == pc \in {"idle", "done"}

\* the caller keeps what a constructor returned; a panic unwinds the caller
Returned(res) ==
    /\ ast' = IF res.ok THEN Some(res.val) ELSE None
    /\ nodes' = <<>>
    /\ yielded' = <<>>
    /\ pc' = IF res.ok THEN "idle" ELSE "crashed"

\* Ast::new(shape, id)
New ==
    /\ CanCall
    /\ \E s \in ShapeInputs, id \in Ids :
          /\ ShapeNodeCount(s) <= MaxNodes
          /\ LET res == Ast_new(s, id)
             IN  /\ last' = [op |-> "new", shape |-> s, id |-> id,
                             res |-> res]
                 /\ Returned(res)
    /\ UNCHANGED rcvars

\* Ast::from(shape)
From ==
    /\ CanCall
    /\ \E s \in ShapeInputs :
          /\ ShapeNodeCount(s) <= MaxNodes
          /\ LET res == Ast_from(s)
             IN  /\ last' = [op |-> "from", shape |-> s, res |-> res]
                 /\ Returned(res)
    /\ UNCHANGED rcvars

\* Ast::new_with_span(shape, id, span)
NewWithSpan ==
    /\ CanCall
    /\ \E s \in SpanShapeInputs, id \in Ids, span \in Spans :
          LET res == Ok(new_with_span(s, id, span))
          IN  /\ last' = [op |-> "new_with_span", shape |-> s, id |-> id,
                          span |-> span, res |-> res]
              /\ Returned(res)
    /\ UNCHANGED rcvars

\* the caller lets go of the node it holds
Drop ==
    /\ CanCall
    /\ IsSome(ast)
    /\ ast' = None
    /\ last' = [op |-> "drop"]
    /\ pc' = "idle"
    /\ nodes' = <<>>
    /\ yielded' = <<>>
    /\ UNCHANGED rcvars

\* ast.span() on the node held
SpanOf ==
    /\ CanCall
    /\ IsSome(ast)
    /\ LET res == HasSpan_Ast(Unwrap(ast))
       IN  /\ last' = [op |-> "span", shape |-> shape(Unwrap(ast)),
                        res |-> res]
           /\ ast' = IF res.ok THEN ast ELSE None
           /\ pc' = IF res.ok THEN "idle" ELSE "crashed"
           /\ nodes' = <<>>
           /\ yielded' = <<>>
    /\ UNCHANGED rcvars

\* serde_json::to_string(&ast)
Encode ==
    /\ CanCall
    /\ IsSome(ast)
    /\ last' = [op |-> "encode", json |-> Ast_serialize(Unwrap(ast))]
    /\ pc' = "idle"
    /\ nodes' = <<>>
    /\ yielded' = <<>>
    /\ UNCHANGED ast
    /\ UNCHANGED rcvars

\* the payloads at hand: a peer's when the caller holds no node, and the
\* text the last Encode produced
PayloadInputs ==
       (IF IsSome(ast) THEN {} ELSE PeerPayloads)
    \cup (IF last.op = "encode" THEN {last.json} ELSE {})

\* serde_json::from_str::<Ast>(payload); sent names the node the payload
\* encodes when it is the text the last Encode produced
Decode ==
    /\ CanCall
    /\ \E p \in PayloadInputs :
          LET res  == Ast_deserialize(p)
              sent == IF last.op = "encode" /\ last.json = p
                      THEN ast ELSE None
          IN  /\ last' = [op |-> "decode", payload |-> p, sent |-> sent,
                          res |-> res]
              /\ ast' = IF res.ok THEN Some(res.val) ELSE None
    /\ pc' = "idle"
    /\ nodes' = <<>>
    /\ yielded' = <<>>
    /\ UNCHANGED rcvars

\* the children of the node at path, one path for each distinct child
ChildPaths_distinct(root, path) ==
    LET kids   == into_iter(NodeAt(root, path))
        firsts == SelectSeq([i \in 1..Len(kids) |-> i],
                            LAMBDA i : \A k \in 1..(i - 1) :
                                          kids[k] # kids[i])
    IN  [j \in 1..Len(firsts) |-> path \o <<firsts[j]>>]
\* the children of the node at path, as paths, in into_iter order
ChildPaths(root, path) ==
    [i \in 1..Len(into_iter(NodeAt(root, path))) |-> path \o <<i>>]

\* Vec::pop takes the last element; each child is pushed at the end
Popped(stack) == stack[Len(stack)]
\* a pop that takes two elements off the stack
AfterPop_two(stack) == SubSeq(stack, 1, Len(stack) - 2)
AfterPop(stack) == SubSeq(stack, 1, Len(stack) - 1)
\* a loop that pushes only the first child
PushAll_first_only(stack, items) ==
    stack \o (IF items = <<>> THEN <<>> ELSE <<Head(items)>>)
PushAll(stack, items) == stack \o items

\* a work stack that starts from the children, leaving the node itself out
InitialNodes_children(root) == ChildPaths(root, <<>>)
\* let mut nodes:Vec<T> = vec![ast]
InitialNodes(root) == << <<>> >>

\* ast.traverse(): iterate_subtree(self), the generator before its first
\* resumption
Traverse ==
    /\ CanCall
    /\ IsSome(ast)
    /\ nodes' = InitialNodes(Unwrap(ast))
    /\ yielded' = <<>>
    /\ pc' = "running"
    /\ last' = [op |-> "traverse"]
    /\ UNCHANGED ast
    /\ UNCHANGED rcvars

\* one resumption of the generator: while !nodes.is_empty() { pop; push
\* each child; yield }, or the end of the loop
IterNext ==
    /\ pc = "running"
    /\ IF nodes = <<>>
       THEN /\ pc' = "done"
            /\ UNCHANGED <<nodes, yielded>>
       ELSE LET node == Popped(nodes)
            IN  /\ nodes' = PushAll(AfterPop(nodes),
                                    ChildPaths(Unwrap(ast), node))
                /\ yielded' = Append(yielded, node)
                /\ pc' = "running"
    /\ UNCHANGED <<ast, last>>
    /\ UNCHANGED rcvars

Next ==
    \/ New
    \/ From
    \/ NewWithSpan
    \/ Drop
    \/ SpanOf
    \/ Encode
    \/ Decode
    \/ Traverse
    \/ IterNext

Spec == Init /\ [][Next]_vars

(* ------------------- traversals of shared subtrees --------------------- *)

\* trees in which one Ast value is held as a child in several places:
\* h and g have children of their own
WalkTrees ==
    LET a    == Ast_var("a")
        foo  == Ast_var("foo")
        h    == Ast_new(SectionSides(a), None).val
        g    == Ast_new(Prefix(a, 0, foo), Some(1)).val
        hh   == Ast_new(Prefix(h, 0, h), None).val
    IN  { Ast_new(x, id).val :
            x \in { Var("a"), Prefix(a, 0, a), Prefix(a, 1, foo),
                    Prefix(h, 0, h), Prefix(g, 1, g), Prefix(h, 0, g),
                    Infix(h, 0, h, 0, h), Infix(g, 0, a, 0, g),
                    Prefix(hh, 0, h), Prefix(hh, 1, hh),
                    Module(<<BlockLine(Some(g), 0), BlockLine(None, 1),
                             BlockLine(Some(g), 0)>>) },
            id \in Ids }

WalkInit ==
    /\ Unshared
    /\ ast \in { Some(t) : t \in WalkTrees }
    /\ last = [op |-> "none"]
    /\ nodes = <<>>
    /\ yielded = <<>>
    /\ pc = "idle"

WalkNext ==
    \/ Traverse
    \/ IterNext

WalkSpec == WalkInit /\ [][WalkNext]_vars

(* ------------------ holders of one node on several threads ------------ *)

(* Ast wraps an Rc, whose strong count is a plain cell: Rc::clone reads    *)
(* the count and writes it back plus one, dropping a handle reads it and   *)
(* writes it back minus one, then reads it again and drops the node when   *)
(* it is zero.  Holders on different threads interleave at these reads and *)
(* writes.                                                                 *)
Holders == 1..MaxHolders

TotalRefs == SumInts([h \in Holders |-> holders[h].refs])

\* the node is reachable from every holder, through one handle each
RcInit ==
    /\ ast = Some(Ast_var("a"))
    /\ last = [op |-> "none"]
    /\ nodes = <<>>
    /\ yielded = <<>>
    /\ pc = "idle"
    /\ strong = MaxHolders
    /\ alive = TRUE
    /\ holders = [h \in Holders |->
                     [pc |-> "ready", refs |-> 1, tmp |-> 0, seen |-> "none"]]

\* ast.clone(), Rc::clone: let strong = self.strong().  The handles of a
\* holder and the count are kept within the bounds.
CloneLoad ==
    /\ alive
    /\ strong < MaxHolders * MaxRefs
    /\ \E h \in Holders :
          /\ holders[h].pc = "ready"
          /\ holders[h].refs >= 1
          /\ holders[h].refs < MaxRefs
          /\ holders' = [holders EXCEPT ![h].pc = "clone_store",
                                        ![h].tmp = strong]
    /\ UNCHANGED <<ast, last, nodes, yielded, pc, strong, alive>>

\* self.strong_ref().set(strong + 1), and the new handle
CloneStore ==
    /\ alive
    /\ \E h \in Holders :
          /\ holders[h].pc = "clone_store"
          /\ strong' = holders[h].tmp + 1
          /\ holders' = [holders EXCEPT ![h].pc = "ready",
                                        ![h].refs = @ + 1]
    /\ UNCHANGED <<ast, last, nodes, yielded, pc, alive>>

\* a handle goes out of scope, Rc::drop: dec_strong reads self.strong()
DropLoad ==
    /\ alive
    /\ \E h \in Holders :
          /\ holders[h].pc = "ready"
          /\ holders[h].refs >= 1
          /\ holders' = [holders EXCEPT ![h].pc = "drop_store",
                                        ![h].tmp = strong,
                                        ![h].refs = @ - 1]
    /\ UNCHANGED <<ast, last, nodes, yielded, pc, strong, alive>>

\* self.strong_ref().set(self.strong() - 1): below zero the usize
\* subtraction panics (checked build)
DropStore ==
    /\ alive
    /\ \E h \in Holders :
          /\ holders[h].pc = "drop_store"
          /\ IF holders[h].tmp = 0
             THEN /\ holders' = [holders EXCEPT ![h].pc = "panicked"]
                  /\ UNCHANGED strong
             ELSE /\ strong' = holders[h].tmp - 1
                  /\ holders' = [holders EXCEPT ![h].pc = "drop_check"]
    /\ UNCHANGED <<ast, last, nodes, yielded, pc, alive>>

\* if self.strong() == 0 { drop the node }
DropCheck ==
    /\ alive
    /\ \E h \in Holders :
          /\ holders[h].pc = "drop_check"
          /\ alive' = (strong # 0)
          /\ holders' = [holders EXCEPT ![h].pc = "ready"]
    /\ UNCHANGED <<ast, last, nodes, yielded, pc, strong>>

\* a holder traverses the node through a handle it has: it reads the
\* node, or the memory of a node already dropped
HolderTraverse ==
    /\ \E h \in Holders :
          /\ holders[h].pc = "ready"
          /\ holders[h].refs >= 1
          /\ holders' = [holders EXCEPT
                            ![h].seen = IF alive THEN "node" ELSE "freed"]
    /\ UNCHANGED <<ast, last, nodes, yielded, pc, strong, alive>>

RcNext ==
    \/ CloneLoad
    \/ CloneStore
    \/ DropLoad
    \/ DropStore
    \/ DropCheck
    \/ HolderTraverse

RcSpec == RcInit /\ [][RcNext]_vars

(* ------------------ generated sum types (to_variant_types) ------------- *)

\* the enums declared with #[ast(flat)]; those declared with #[ast] are
\* MacroPatternRaw, PatternClass and MacroPatternMatchRaw
FlatEnums ==
    {"Shape", "Builder", "TextLine", "SegmentRaw", "SegmentFmt", "RawEscape"}

\* the variants of the enums the conversions below are applied to
Variants(enum) ==
    CASE enum = "Shape" ->
             {"Unrecognized", "InvalidQuote", "InlineBlock", "Blank", "Var",
              "Cons", "Opr", "Mod", "InvalidSuffix", "Number", "DanglingBase",
              "TextLineRaw", "TextLineFmt", "TextBlockRaw", "TextBlockFmt",
              "TextUnclosed", "Prefix", "Infix", "SectionLeft",
              "SectionRight", "SectionSides", "Module", "Block", "Match",
              "Ambiguous", "Comment", "Import", "Mixfix", "Group", "Def",
              "Foreign"}
      [] enum = "Builder" -> {"Empty", "Letter", "Space", "Text", "Seq"}
      [] enum = "RawEscape" ->
             {"Unfinished", "Invalid", "Slash", "Quote", "RawQuote"}
      [] enum = "PatternClass" -> {"Normal", "Pattern"}
      [] enum = "MacroPatternRaw" ->
             {"Begin", "End", "Nothing", "Seq", "Or", "Many", "Except",
              "Build", "Err", "Tag", "Cls", "Tok", "Blank", "Var", "Cons",
              "Opr", "Mod", "Num", "Text", "Block", "Macro", "Invalid"}

\* mk_product_type: the name of the struct generated for a variant
mk_product_type_ident(enum, variant) ==
    IF enum \in FlatEnums THEN variant ELSE enum \o variant

WrongEnum(expected_con) == [expected_con |-> expected_con]

\* a widening that keeps the constructor and loses the record
From_variant_default(enum, variant, t) == [tag |-> variant]

\* impl From<Variant> for Sum: Sum::Variant(t)
From_variant(enum, variant, t) ==
    [f \in DOMAIN t \cup {"tag"} |-> IF f = "tag" THEN variant ELSE t[f]]

\* the record a sum value holds
elem(value) == [f \in DOMAIN value \ {"tag"} |-> value[f]]

\* impl TryFrom<&Sum> for &Variant
TryFrom_ref(enum, variant, value) ==
    IF value.tag = variant THEN Ok(elem(value))
    ELSE Err(WrongEnum(mk_product_type_ident(enum, variant)))

\* impl TryFrom<Sum> for Variant
TryFrom_value(enum, variant, value) ==
    IF value.tag = variant THEN Ok(elem(value))
    ELSE Err(WrongEnum(mk_product_type_ident(enum, variant)))

\* variant records, each with the enum and the variant it belongs to
VariantInputs ==
       { [enum |-> "Shape", variant |-> v, rec |-> [name |-> n]] :
             v \in {"Var", "Cons", "Opr", "Mod"}, n \in Names }
    \cup { [enum |-> "Shape", variant |-> "Blank", rec |-> Unit],
           [enum |-> "Shape", variant |-> "Number",
            rec |-> [base |-> Some("16"), int |-> "ff"]],
           [enum |-> "Shape", variant |-> "SectionSides",
            rec |-> [opr |-> Ast_var("a")]],
           [enum |-> "RawEscape", variant |-> "Unfinished", rec |-> Unit],
           [enum |-> "RawEscape", variant |-> "Invalid",
            rec |-> [str |-> "x"]],
           [enum |-> "PatternClass", variant |-> "Normal", rec |-> Unit],
           [enum |-> "MacroPatternRaw", variant |-> "Begin", rec |-> Unit],
           [enum |-> "MacroPatternRaw", variant |-> "Opr",
            rec |-> [spaced |-> Some(TRUE), max_prec |-> None]] }
    \cup { [enum |-> "Builder", variant |-> "Space", rec |-> [span |-> n]] :
             n \in Spans }

(* ----------------------------- equality -------------------------------- *)

\* a handle is an Rc: the address of the node it points to, and the node
Rc(ptr, value) == [ptr |-> ptr, ast |-> value]
\* impl Clone for Ast: another handle to the same node
Ast_clone(h) == Rc(h.ptr, h.ast)
\* derive(PartialEq) on WithSpan and WithID: field by field
WithSpan_eq(x, y) == x.wrapped = y.wrapped /\ x.span = y.span
WithID_eq(x, y) == WithSpan_eq(x.wrapped, y.wrapped) /\ x.id = y.id
\* an equality of handles that asks only whether they point to one node
Ast_eq_by_identity(h1, h2) == h1.ptr = h2.ptr
\* derive(PartialEq) on Ast compares the wrapped Rc, and Rc<T: Eq>
\* compares the addresses first and then the values pointed to
Ast_eq(h1, h2) ==
    h1.ptr = h2.ptr \/ WithID_eq(h1.ast.wrapped, h2.ast.wrapped)

\* nodes that differ in shape, in id, in stored span, or only in the id or
\* the stored span of a child
EqNodes ==
    LET a      == Ast_var("a")
        shapes == { Var("a"), Var("foo"), Prefix(a, 0, a),
                    Prefix(new_with_span(Var("a"), Some(1), 1), 0, a),
                    Prefix(new_with_span(Var("a"), None, MaxSpan), 0, a) }
    IN  { new_with_span(x, id, span) :
              x \in shapes, id \in Ids, span \in Spans }

(* ------------------------ JSON-RPC messages ---------------------------- *)

\* enum Version, written "1.0" and "2.0" (serde rename)
V1 == "V1"
V2 == "V2"
Version_serialize(v) == JStr(IF v = V1 THEN "1.0" ELSE "2.0")

\* a message that bears the old protocol version
Message_new_v1(t) == [jsonrpc |-> V1, payload |-> t]
\* Message::new
Message_new(t) == [jsonrpc |-> V2, payload |-> t]

MethodCall(method, input) == [method |-> method, input |-> input]
Request_new(id, call) == [id |-> id, call |-> call]
\* struct Notification<Call>(pub Call)
Notification(call) == <<call>>
Response(id, result) == [id |-> id, result |-> result]
\* Result::Success(Success {result}) and Result::Error(Error {..})
Success(result) == [tag |-> "Success", result |-> result]
Error(code, message, data) ==
    [tag |-> "Error", code |-> code, message |-> message, data |-> data]

new_request(id, method, input) ==
    LET call    == MethodCall(method, input)
        request == Request_new(id, call)
    IN  Message_new(request)
new_success(id, result) == Message_new(Response(id, Success(result)))
new_error(id, code, message, data) ==
    Message_new(Response(id, Error(code, message, data)))
new_notification(method, input) ==
    LET call         == MethodCall(method, input)
        notification == Notification(call)
    IN  Message_new(notification)

\* derive(Serialize): the entries each part writes; a field marked
\* serde(flatten) writes its entries into the object that holds it, a
\* newtype struct is written as its content, an untagged enum as the
\* content of its variant.  The input of a call and the result of a
\* response are JSON values already.
MethodCall_serialize(c) ==
    << <<"method", JStr(c.method)>>, <<"input", c.input>> >>
Request_serialize(r) == << <<"id", JNum(r.id)>> >> \o MethodCall_serialize(r.call)
Notification_serialize(n) == MethodCall_serialize(n[1])
Result_serialize(r) ==
    IF r.tag = "Success" THEN << <<"result", r.result>> >>
    ELSE << <<"code", JNum(r.code)>>, <<"message", JStr(r.message)>>,
            <<"data", IF IsSome(r.data) THEN Unwrap(r.data) ELSE JNull>> >>
Response_serialize(r) == << <<"id", JNum(r.id)>> >> \o Result_serialize(r.result)
\* Message<T>: jsonrpc, then the flattened payload; T is the payload type
Message_serialize(T, m) ==
    JObj(   << <<"jsonrpc", Version_serialize(m.jsonrpc)>> >>
         \o CASE T = "Request"      -> Request_serialize(m.payload)
               [] T = "Response"     -> Response_serialize(m.payload)
               [] T = "Notification" -> Notification_serialize(m.payload))

\* derive(Deserialize).  Id is a newtype over i64.
Id_deserialize(json) == IF json.j = "num" THEN Ok(json.v) ELSE invalid_type
Success_deserialize(obj) ==
    IF HasKey(obj, "result") THEN Ok(Success(Lookup(obj, "result")))
    ELSE missing_field("result")
Error_deserialize(obj) ==
    IF ~HasKey(obj, "code") THEN missing_field("code")
    ELSE IF Lookup(obj, "code").j # "num" THEN invalid_type
    ELSE IF ~HasKey(obj, "message") THEN missing_field("message")
    ELSE IF Lookup(obj, "message").j # "str" THEN invalid_type
    ELSE Ok(Error(Lookup(obj, "code").v, Lookup(obj, "message").v,
                  IF HasKey(obj, "data") /\ Lookup(obj, "data") # JNull
                  THEN Some(Lookup(obj, "data")) ELSE None))
\* serde(untagged): the variants are tried in declaration order
Result_deserialize(obj) ==
    LET success == Success_deserialize(obj)
        error   == Error_deserialize(obj)
    IN  IF success.ok THEN success
        ELSE IF error.ok THEN error
        ELSE Err("data did not match any variant of untagged enum Result")
\* Response: id, and the remaining entries go to the flattened result
Response_deserialize(json) ==
    IF json.j # "obj" THEN invalid_type
    ELSE IF ~HasKey(json, "id") THEN missing_field("id")
    ELSE LET id     == Id_deserialize(Lookup(json, "id"))
             result == Result_deserialize(json)
         IN  IF ~id.ok THEN id
             ELSE IF ~result.ok THEN result
             ELSE Ok(Response(id.val, result.val))
\* an incoming message read as a notification whatever it holds
IncomingMessage_notification_first(json) ==
    Ok([tag |-> "Notification", call |-> Notification(json)])
\* IncomingMessage, serde(untagged): Response<Value> first, then
\* Notification<Value>, a newtype over a JSON value, which takes any input
IncomingMessage_deserialize(json) ==
    LET response == Response_deserialize(json)
    IN  IF response.ok
        THEN Ok([tag |-> "Response", id |-> response.val.id,
                 result |-> response.val.result])
        ELSE Ok([tag |-> "Notification", call |-> Notification(json)])

\* what a client sends and what a server answers
RpcIds == {0, 50}
RpcMethods == {"mockMethod", "mockNotification"}
RpcValues ==
    { JObj(<< <<"number", JNum(124)>> >>), JObj(<< <<"id", JNum(7)>> >>),
      JNull }
IncomingInputs ==
    LET ids     == { <<>>, << <<"id", JNum(0)>> >>, << <<"id", JNum(50)>> >>,
                     << <<"id", JNull>> >> }
        results == { <<>>, << <<"result", JNull>> >>,
                     << <<"result", JObj(<< <<"exists", JBool(TRUE)>> >>)>>
                     >> }
        errors  == { <<>>,
                     << <<"code", JNum(1)>>, <<"message", JStr("m")>> >>,
                     << <<"code", JNum(1)>>, <<"message", JStr("m")>>,
                        <<"data", JStr("d")>> >> }
        calls   == { <<>>,
                     << <<"method", JStr("mockNotification")>>,
                        <<"input", JObj(<< <<"number", JNum(125)>> >>)>> >> }
        version == << <<"jsonrpc", JStr("2.0")>> >>
    IN     { JObj(version \o i \o r \o e \o c) :
               i \in ids, r \in results, e \in errors, c \in calls }
      \cup { JObj(r \o e \o i) : i \in ids, r \in results, e \in errors }
      \cup { JArr(<<>>), JNull }

(* ----------------------- inputs of the span algebra -------------------- *)

\* the sequences over S of length at most n
SeqsUpTo(S, n) == UNION { [1..k -> S] : k \in 0..n }

\* SegmentRaw values
RawSegs ==
       { [tag |-> "SegmentPlain", value |-> v] : v \in {"", "ab"} }
    \cup { [tag |-> "SegmentRawEscape", code |-> c] :
             c \in { [tag |-> "Unfinished"], [tag |-> "Invalid", str |-> "x"],
                     [tag |-> "Slash"], [tag |-> "Quote"],
                     [tag |-> "RawQuote"] } }

\* SegmentFmt<Ast> values
FmtSegs ==
       { [tag |-> "SegmentPlain", value |-> "ab"],
         [tag |-> "SegmentRawEscape", code |-> [tag |-> "Slash"]],
         [tag |-> "SegmentExpr", value |-> None],
         [tag |-> "SegmentExpr", value |-> Some(Ast_var("foo"))] }
    \cup { [tag |-> "SegmentEscape", code |-> c] :
             c \in { [tag |-> "Character", c |-> "n"],
                     [tag |-> "Control", name |-> "NUL", code |-> 0],
                     [tag |-> "Number", digits |-> "065"],
                     [tag |-> "Unicode16", digits |-> "00e9"],
                     [tag |-> "Unicode21", digits |-> "1F600"],
                     [tag |-> "Unicode32", digits |-> "0001F600"] } }

\* TextBlockLine values over the given texts
TextBlockLines(texts) ==
    { [empty_lines |-> e, text |-> t] :
          e \in {<<>>, <<0>>, <<1, 2>>}, t \in texts }

\* child nodes: built by Ast::new, and one whose stored span is not the
\* span of its shape
Kids ==
    { Ast_var("a"), Ast_var("foo"), Ast_new(Number(Some("16"), "ff"), None).val,
      new_with_span(Var("a"), None, 0) }

\* Builder values: the leaves, and concatenations nested twice
BuilderLeaves ==
    { [tag |-> "Empty"], [tag |-> "Letter", char |-> "a"],
      [tag |-> "Space", span |-> 0], [tag |-> "Space", span |-> MaxSpan],
      [tag |-> "Text", str |-> ""], [tag |-> "Text", str |-> "foo"] }
Builders ==
    LET Joined(A, B) == { [tag |-> "Seq", first |-> x, second |-> y] :
                              x \in A, y \in B }
        flat         == Joined(BuilderLeaves, BuilderLeaves)
    IN  BuilderLeaves \cup flat \cup Joined(flat, BuilderLeaves)
            \cup Joined(BuilderLeaves, flat)

\* the lines of a Module or Block: empty, or holding a child node
BlockLines ==
    { BlockLine(e, off) :
        e \in {None, Some(Ast_var("foo")),
               Some(new_with_span(Var("a"), None, 0))},
        off \in Offs }

\* the shapes whose span is computed
SpanShapes ==
       { [tag |-> t, name |-> n] :
             t \in {"Var", "Cons", "Opr", "Mod"}, n \in Names \cup {"", "+"} }
    \cup { Blank, [tag |-> "DanglingBase", base |-> "16"] }
    \cup { Number(b, i) : b \in {None, Some("2"), Some("16")},
                          i \in {"1", "ff", "1010"} }
    \cup { [tag |-> "TextLineRaw", text |-> t] :
             t \in SeqsUpTo(RawSegs, MaxSegs) }
    \cup { [tag |-> "TextLineFmt", text |-> t] :
             t \in SeqsUpTo(FmtSegs, MaxSegs) }
    \cup { [tag |-> "TextBlockRaw", text |-> t, spaces |-> sp, offset |-> o] :
             t \in SeqsUpTo(TextBlockLines({<<>>,
                       << [tag |-> "SegmentPlain", value |-> "ab"],
                          [tag |-> "SegmentRawEscape",
                           code |-> [tag |-> "Quote"]] >>}), MaxLines),
             sp \in {0, 2}, o \in Offs }
    \cup { [tag |-> "TextBlockFmt", text |-> t, spaces |-> sp, offset |-> o] :
             t \in SeqsUpTo(TextBlockLines({<<>>,
                       << [tag |-> "SegmentExpr",
                           value |-> Some(Ast_var("foo"))],
                          [tag |-> "SegmentEscape",
                           code |-> [tag |-> "Unicode21",
                                     digits |-> "1F600"]] >>}), MaxLines),
             sp \in {0, 2}, o \in Offs }
    \cup { Prefix(f, off, x) : f \in Kids, off \in Offs, x \in Kids }
    \cup { Infix(l, loff, Ast_var("a"), roff, r) :
             l \in Kids, loff \in Offs, roff \in Offs, r \in Kids }
    \cup { Infix(Ast_var("a"), 0, o, MaxOff, Ast_var("a")) : o \in Kids }
    \cup { [tag |-> "SectionLeft", arg |-> x, off |-> off, opr |-> o] :
             x \in Kids, off \in Offs, o \in Kids }
    \cup { [tag |-> "SectionRight", opr |-> o, off |-> off, arg |-> x] :
             x \in Kids, off \in Offs, o \in Kids }
    \cup { SectionSides(o) : o \in Kids }
    \cup { Module(l) : l \in SeqsUpTo(BlockLines, MaxLines) }
    \cup { [tag |-> "Block", ty |-> [tag |-> "Continuous"], indent |-> n,
            empty_lines |-> e, first_line |-> BlockLine(k, off),
            lines |-> l, is_orphan |-> o] :
             n \in {0, 2}, e \in {<<>>, <<0>>, <<1, 2>>},
             k \in {Ast_var("foo"), new_with_span(Var("a"), None, 0)},
             off \in Offs, l \in SeqsUpTo(BlockLines, MaxLines),
             o \in BOOLEAN }
    \cup { [tag |-> "TextUnclosed",
            line |-> [tag |-> "TextLineRaw", text |-> t]] :
             t \in SeqsUpTo(RawSegs, MaxSegs) }
    \cup { [tag |-> "TextUnclosed",
            line |-> [tag |-> "TextLineFmt", text |-> t]] :
             t \in SeqsUpTo(FmtSegs, MaxSegs) }
    \cup { [tag |-> t, quote |-> q] :
             t \in {"InvalidQuote", "InlineBlock"}, q \in Builders }

\* the branches supplied to a Tree<Ast, Unit>: leaves and nested trees
\* under the keys a and foo, equal sibling keys and repeated branches
\* included
BranchInputs ==
    LET leaves == { Tree(Some(Unit), <<>>), Tree(None, <<>>) }
        a      == Ast_var("a")
        foo    == Ast_var("foo")
        nested == { Tree(None, << <<foo, Tree(Some(Unit), <<>>)>>,
                                  <<a, Tree(None, <<>>)>> >>),
                    Tree(None, << <<a, Tree(None, <<>>)>>,
                                  <<a, Tree(None, <<>>)>> >>) }
    IN  SeqsUpTo({a, foo} \X (leaves \cup nested), MaxBranches)

(* ------------------- the library applied to inputs --------------------- *)

PureInit ==
    /\ Unshared
    /\ ast = None
    /\ nodes = <<>>
    /\ yielded = <<>>
    /\ pc = "idle"
    /\ last \in    { [op |-> "variant", enum |-> i.enum,
                        variant |-> i.variant, rec |-> i.rec] :
                          i \in VariantInputs }
                \cup { [op |-> "shape", shape |-> x] : x \in SpanShapes }
                \cup { [op |-> "segment", seg |-> x] : x \in FmtSegs }
                \cup { [op |-> "branches", value |-> v, branches |-> b] :
                          v \in {None, Some(Unit)}, b \in BranchInputs }
                \cup { [op |-> "call", id |-> i, method |-> m, input |-> x] :
                          i \in RpcIds, m \in RpcMethods, x \in RpcValues }
                \cup { [op |-> "return", id |-> i, result |-> x] :
                          i \in RpcIds, x \in RpcValues }
                \cup { [op |-> "fail", id |-> i, code |-> 1,
                        message |-> "m", data |-> d] :
                          i \in RpcIds, d \in {None, Some(JStr("d"))} }
                \cup { [op |-> "incoming", json |-> j] :
                          j \in IncomingInputs }
                \cup { [op |-> "pair", a |-> Rc(1, x), b |-> Rc(2, y)] :
                          x \in EqNodes, y \in EqNodes }

\* Sum::from(record)
Widen ==
    /\ last.op = "variant"
    /\ last' = [op |-> "widen", enum |-> last.enum, variant |-> last.variant,
                rec |-> last.rec,
                sum |-> From_variant(last.enum, last.variant, last.rec)]
    /\ UNCHANGED <<ast, nodes, yielded, pc>>
    /\ UNCHANGED rcvars

\* <&Variant>::try_from(&sum) and Variant::try_from(sum)
Narrow ==
    /\ last.op = "widen"
    /\ \E to \in Variants(last.enum) :
          last' = [op |-> "narrow", enum |-> last.enum,
                   variant |-> last.variant, rec |-> last.rec,
                   sum |-> last.sum, to |-> to,
                   by_ref |-> TryFrom_ref(last.enum, to, last.sum),
                   by_value |-> TryFrom_value(last.enum, to, last.sum)]
    /\ UNCHANGED <<ast, nodes, yielded, pc>>
    /\ UNCHANGED rcvars

\* shape.span()
ShapeSpan ==
    /\ last.op = "shape"
    /\ last' = [op |-> "shape_span", shape |-> last.shape,
                res |-> HasSpan_Shape(last.shape)]
    /\ UNCHANGED <<ast, nodes, yielded, pc>>
    /\ UNCHANGED rcvars

\* segment.span() on a SegmentFmt<Ast>
SegmentSpan ==
    /\ last.op = "segment"
    /\ last' = [op |-> "segment_span", seg |-> last.seg,
                res |-> span_SegmentFmt(last.seg)]
    /\ UNCHANGED <<ast, nodes, yielded, pc>>
    /\ UNCHANGED rcvars

\* Tree { value, branches }, then serde_json::to_value and from_value
TreeRoundTrip ==
    /\ last.op = "branches"
    /\ LET tree == Tree(last.value, last.branches)
           json == Serialize(KStruct("Tree"), tree)
       IN  last' = [op |-> "tree", value |-> last.value,
                    branches |-> last.branches, tree |-> tree,
                    json |-> json,
                    back |-> Deserialize(KStruct("Tree"), json)]
    /\ UNCHANGED <<ast, nodes, yielded, pc>>
    /\ UNCHANGED rcvars

\* serde_json::to_value(Message::new_request(id, method, input))
NewRequest ==
    /\ last.op = "call"
    /\ LET message == new_request(last.id, last.method, last.input)
       IN  last' = [op |-> "sent", kind |-> "Request", args |-> last,
                    message |-> message,
                    json |-> Message_serialize("Request", message)]
    /\ UNCHANGED <<ast, nodes, yielded, pc>>
    /\ UNCHANGED rcvars

\* serde_json::to_value(Message::new_notification(method, input))
NewNotification ==
    /\ last.op = "call"
    /\ LET message == new_notification(last.method, last.input)
       IN  last' = [op |-> "sent", kind |-> "Notification", args |-> last,
                    message |-> message,
                    json |-> Message_serialize("Notification", message)]
    /\ UNCHANGED <<ast, nodes, yielded, pc>>
    /\ UNCHANGED rcvars

\* serde_json::to_value(Message::new_success(id, result))
NewSuccess ==
    /\ last.op = "return"
    /\ LET message == new_success(last.id, last.result)
       IN  last' = [op |-> "sent", kind |-> "Success", args |-> last,
                    message |-> message,
                    json |-> Message_serialize("Response", message)]
    /\ UNCHANGED <<ast, nodes, yielded, pc>>
    /\ UNCHANGED rcvars

\* serde_json::to_value(Message::new_error(id, code, message, data))
NewError ==
    /\ last.op = "fail"
    /\ LET message == new_error(last.id, last.code, last.message, last.data)
       IN  last' = [op |-> "sent", kind |-> "Error", args |-> last,
                    message |-> message,
                    json |-> Message_serialize("Response", message)]
    /\ UNCHANGED <<ast, nodes, yielded, pc>>
    /\ UNCHANGED rcvars

\* serde_json::from_str::<IncomingMessage>
Receive ==
    /\ last.op = "incoming"
    /\ last' = [op |-> "received", json |-> last.json,
                res |-> IncomingMessage_deserialize(last.json)]
    /\ UNCHANGED <<ast, nodes, yielded, pc>>
    /\ UNCHANGED rcvars

\* a == b, and a == a.clone()
Compare ==
    /\ last.op = "pair"
    /\ LET copy == Ast_clone(last.a)
       IN  last' = [op |-> "compared", a |-> last.a, b |-> last.b,
                    copy |-> copy, res |-> Ast_eq(last.a, last.b),
                    res_copy |-> Ast_eq(last.a, copy)]
    /\ UNCHANGED <<ast, nodes, yielded, pc>>
    /\ UNCHANGED rcvars

PureNext ==
    \/ Widen
    \/ Narrow
    \/ ShapeSpan
    \/ SegmentSpan
    \/ TreeRoundTrip
    \/ NewRequest
    \/ NewNotification
    \/ NewSuccess
    \/ NewError
    \/ Receive
    \/ Compare

PureSpec == PureInit /\ [][PureNext]_vars

(* ------------------------------ claims --------------------------------- *)

\* the node the caller holds
Held == Unwrap(ast)

\* C1 as stated: every node a construction path produced (Ast::new, From,
\* Ast::new_with_span, decoding) stores the span the span algebra computes
\* from its shape.
C1_StoredSpanIsComputed ==
    (last.op \in {"new", "from", "new_with_span", "decode"} /\ last.res.ok)
        => HasSpan_Shape(shape(last.res.val)) = Ok(StoredSpan(last.res.val))

\* C1 amended: a node returned by Ast::new or From stores the span computed
\* from its shape; Ast::new_with_span stores the span the caller passed and
\* decoding stores the span the payload carries, whatever the shape.
C1_StoredSpanBySource ==
    /\ (last.op \in {"new", "from"} /\ last.res.ok)
           => /\ shape(last.res.val) = last.shape
              /\ HasSpan_Shape(last.shape) = Ok(StoredSpan(last.res.val))
    /\ last.op = "new_with_span"
           => /\ last.res.ok
              /\ StoredSpan(last.res.val) = last.span
    /\ (last.op = "decode" /\ last.res.ok)
           => JNum(StoredSpan(last.res.val)) = Lookup(last.payload, SPAN)

\* Ast::new has built a node around child nodes
C1_Witness ==
    /\ last.op = "new"
    /\ last.res.ok
    /\ Len(into_iter(last.res.val)) = 2
    /\ StoredSpan(last.res.val) > 2

\* C2 as stated: the span accessor returns the span stored in the node, and
\* a parent built by Ast::new counts the stored span of its child.
C2_SpanReturnsStored ==
    /\ (last.op = "span" /\ last.res.ok)
           => last.res.val = StoredSpan(Held)
    /\ (last.op = "new" /\ last.res.ok /\ last.shape.tag = "SectionSides")
           => StoredSpan(last.res.val) = StoredSpan(last.shape.opr)

\* C3: decoding the encoding of a node gives a node equal to it: same
\* shape, same id, same span.
C3_RoundTrip ==
    (last.op = "decode" /\ IsSome(last.sent))
        => /\ last.res.ok
           /\ shape(last.res.val) = shape(Unwrap(last.sent))
           /\ IdOf(last.res.val) = IdOf(Unwrap(last.sent))
           /\ StoredSpan(last.res.val) = StoredSpan(Unwrap(last.sent))
           /\ last.res.val = Unwrap(last.sent)

\* the encoding of a node with an id, around a child whose stored span is
\* not the computed one, has been decoded
C3_Witness ==
    /\ last.op = "decode"
    /\ IsSome(last.sent)
    /\ IsSome(IdOf(Unwrap(last.sent)))
    /\ \E i \in 1..Len(into_iter(Unwrap(last.sent))) :
          LET kid == into_iter(Unwrap(last.sent))[i]
          IN  HasSpan_Ast(kid) # Ok(StoredSpan(kid))

\* the objects that encode the Ast values of a value of the given type, in
\* field order (the children themselves, not their descendants)
RECURSIVE JAsts(_, _)
JAstsOfFields(fields, obj) ==
    Concat([i \in 1..Len(fields) |->
               JAsts(fields[i][2], Lookup(obj, fields[i][1]))])
JAsts(kind, json) ==
    CASE kind.k \in {"str", "usize", "bool", "uuid"} -> <<>>
      [] kind.k = "ast"    -> <<json>>
      [] kind.k = "opt"    ->
             IF json.j = "null" THEN <<>> ELSE JAsts(kind.of, json)
      [] kind.k = "vec"    ->
             Concat([i \in 1..Len(json.v) |-> JAsts(kind.of, json.v[i])])
      [] kind.k = "pair"   ->
             JAsts(kind.a, json.v[1]) \o JAsts(kind.b, json.v[2])
      [] kind.k = "struct" -> JAstsOfFields(StructFields(kind.name), json)
      [] kind.k = "enum"   ->
             JAstsOfFields(EnumFields(kind.name, json.v[1][1]), json.v[1][2])

\* the keys of the object that encodes node, and of the objects that encode
\* its descendants
RECURSIVE EncodingKeysOk(_, _)
EncodingKeysOk(node, json) ==
    /\ json.j = "obj"
    /\ Keys(json) = IF IsSome(IdOf(node)) THEN <<SHAPE, ID, SPAN>>
                    ELSE <<SHAPE, SPAN>>
    /\ \A i \in 1..Len(json.v) : json.v[i][2].j # "null"
    /\ LET kids  == into_iter(node)
           jkids == JAsts(KEnum("Shape"), Lookup(json, SHAPE))
       IN  /\ Len(jkids) = Len(kids)
           /\ \A i \in 1..Len(kids) : EncodingKeysOk(kids[i], jkids[i])

\* C4: the encoding of a node is an object with the keys shape and span when
\* the id is absent (no id key, never null) and shape, id, span when it is
\* present, and so is the encoding of every nested child.
C4_EncodingKeys ==
    last.op = "encode" => EncodingKeysOk(Held, last.json)

\* a node without id holding a child with an id has been encoded
C4_Witness ==
    /\ last.op = "encode"
    /\ ~IsSome(IdOf(Held))
    /\ \E i \in 1..Len(into_iter(Held)) : IsSome(IdOf(into_iter(Held)[i]))
    /\ \E i \in 1..Len(into_iter(Held)) : ~IsSome(IdOf(into_iter(Held)[i]))

\* every object of the payload that encodes a node carries shape and span
RECURSIVE CarriesShapeAndSpan(_)
CarriesShapeAndSpan(json) ==
    /\ HasKey(json, SHAPE)
    /\ HasKey(json, SPAN)
    /\ LET jkids == JAsts(KEnum("Shape"), Lookup(json, SHAPE))
       IN  \A i \in 1..Len(jkids) : CarriesShapeAndSpan(jkids[i])

\* C5: decoding an object succeeds exactly when it carries both shape and
\* span (it and every nested node object); otherwise it fails with a
\* missing-field error and leaves no node; a missing id gives a node
\* without identity.
C5_DecodeMissingFields ==
    last.op = "decode"
        => /\ last.res.ok <=> CarriesShapeAndSpan(last.payload)
           /\ ~last.res.ok
                 => /\ ast = None
                    /\ last.res \in {missing_field(SHAPE), missing_field(SPAN)}
           /\ ~HasKey(last.payload, SHAPE) => last.res = missing_field(SHAPE)
           /\ (last.res.ok /\ ~HasKey(last.payload, ID))
                 => IdOf(last.res.val) = None
           /\ last.res.ok => ast = Some(last.res.val)

\* a payload with a shape and an id but no span has been refused
C5_Witness ==
    /\ last.op = "decode"
    /\ HasKey(last.payload, SHAPE)
    /\ HasKey(last.payload, ID)
    /\ ~HasKey(last.payload, SPAN)
    /\ last.res = missing_field(SPAN)

\* C6 as stated: Ast::new and the conversion of a shape into an Ast never
\* fail, whatever the variant of the shape.
C6_NewNeverFails ==
    last.op \in {"new", "from"} => last.res.ok

\* the variants the span dispatch does not list
Unlisted ==
    {"Match", "Ambiguous", "Comment", "Import", "Mixfix", "Group", "Def",
     "Foreign"}

\* C7: asking for the span of a shape of a variant the dispatch does not
\* list raises the not-implemented failure and never returns a number.
C7_UnlistedSpanRaises ==
    (last.op \in {"span", "new", "from"} /\ last.shape.tag \in Unlisted)
        => /\ ~last.res.ok
           /\ last.res = Panic(NotImplemented)
           /\ pc = "crashed"

\* the span of a held macro node has been asked for
C7_Witness ==
    /\ last.op = "span"
    /\ last.shape.tag = "Ambiguous"
    /\ ~last.res.ok

NoDuplicates(seq) ==
    \A i, j \in 1..Len(seq) : seq[i] = seq[j] => i = j
Range(seq) == { seq[i] : i \in 1..Len(seq) }

\* C8: a traversal terminates (each resumption either yields one more node
\* or ends the traversal, and no node is yielded twice, so the subtree's
\* node count bounds the resumptions), and when it has ended it has yielded
\* every node of the subtree, the start node included, exactly once; a leaf
\* yields exactly itself.
C8_TraversalVisitsAllOnce ==
    /\ [](pc \in {"running", "done"}
             => /\ NoDuplicates(yielded)
                /\ Range(yielded) \subseteq SubtreePaths(Held)
                /\ Len(yielded) <= NodeCount(Held))
    /\ [](pc = "done"
             => /\ Range(yielded) = SubtreePaths(Held)
                /\ Len(yielded) = NodeCount(Held)
                /\ into_iter(Held) = <<>> => yielded = << <<>> >>)
    /\ [][pc = "running"
             => \/ pc' = "done" /\ yielded' = yielded
                \/ pc' = "running" /\ Len(yielded') = Len(yielded) + 1]_vars

\* a traversal of a tree of three nodes or more has ended
C8_Witness ==
    /\ pc = "done"
    /\ Len(yielded) >= 3

Parent(path) == SubSeq(path, 1, Len(path) - 1)

\* C9: every node is yielded after its parent, and the first node yielded
\* is the node the traversal started at.
C9_ParentFirst ==
    pc \in {"running", "done"}
        => /\ Len(yielded) >= 1 => yielded[1] = <<>>
           /\ \A i \in 1..Len(yielded) :
                 yielded[i] # <<>>
                     => \E k \in 1..(i - 1) : yielded[k] = Parent(yielded[i])

\* a grandchild of the start node has been yielded
C9_Witness ==
    /\ pc = "done"
    /\ \E i \in 1..Len(yielded) : Len(yielded[i]) = 2

\* p names a node in (or at the root of) an earlier sibling subtree than q
LeftOf(p, q) ==
    \E k \in 1..Len(p) :
        /\ k <= Len(q)
        /\ SubSeq(p, 1, k - 1) = SubSeq(q, 1, k - 1)
        /\ p[k] < q[k]

\* C10 as stated: of two children of a node, the one earlier in field
\* order is yielded, with its whole subtree, before the other.
C10_ChildrenLeftToRight ==
    pc = "done"
        => \A i, j \in 1..Len(yielded) :
              LeftOf(yielded[i], yielded[j]) => i < j

\* C11: converting a shape into an Ast yields a node without id whose span
\* is the span of the shape (for Var the length of its name); the id of a
\* node is the one its constructor was given, and a decoded node has the id
\* of its payload or none.
C11_DefaultIdentity ==
    /\ (last.op = "from" /\ last.res.ok)
           => /\ IdOf(last.res.val) = None
              /\ shape(last.res.val) = last.shape
              /\ Ok(StoredSpan(last.res.val)) = HasSpan_Shape(last.shape)
              /\ last.shape.tag = "Var"
                    => StoredSpan(last.res.val) = Len(last.shape.name)
    /\ (last.op \in {"new", "new_with_span"} /\ last.res.ok)
           => IdOf(last.res.val) = last.id
    /\ (last.op = "decode" /\ last.res.ok)
           => IdOf(last.res.val) =
                  IF HasKey(last.payload, ID)
                        /\ Lookup(last.payload, ID).j = "str"
                  THEN Some(Uuid_parse_str(Lookup(last.payload, ID).v).val)
                  ELSE None

\* Var{name: "foo"} has been converted into an Ast
C11_Witness ==
    /\ last.op = "from"
    /\ last.shape = Var("foo")
    /\ last.res.ok
    /\ StoredSpan(last.res.val) = 3

\* C12 as stated: narrowing a sum value to the variant V succeeds exactly
\* when the value was built with constructor V and returns the record it
\* holds; otherwise it fails with the wrong-variant error whose expected
\* constructor is the name of V; by reference and by value agree.
C12_Narrowing ==
    last.op = "narrow"
        => /\ last.by_ref = IF last.to = last.variant THEN Ok(last.rec)
                            ELSE Err(WrongEnum(last.to))
           /\ last.by_value = last.by_ref

\* C13: widening a variant record always gives a value of the sum, built
\* with the record's constructor, and narrowing that value back to the
\* variant returns a record equal to the one widened.
C13_WideningLossless ==
    /\ last.op \in {"widen", "narrow"}
           => /\ last.sum.tag = last.variant
              /\ DOMAIN last.sum = DOMAIN last.rec \cup {"tag"}
              /\ \A f \in DOMAIN last.rec : last.sum[f] = last.rec[f]
    /\ (last.op = "narrow" /\ last.to = last.variant)
           => /\ last.by_ref = Ok(last.rec)
              /\ last.by_value = Ok(last.rec)

\* a record with fields, of an enum declared without flat, has been widened
\* and narrowed back
C13_Witness ==
    /\ last.op = "narrow"
    /\ last.enum = "MacroPatternRaw"
    /\ last.to = last.variant
    /\ last.rec = [spaced |-> Some(TRUE), max_prec |-> None]
    /\ last.by_value.ok

\* the span a child node or a segment contributes
SpanOfKid(kid) == HasSpan_Ast(kid).val
SpanOfSeg(seg) ==
    IF seg.tag \in {"SegmentExpr", "SegmentEscape"}
    THEN span_SegmentFmt(seg).val ELSE span_SegmentRaw(seg)
SumOver(seq, F(_)) == SumInts([i \in 1..Len(seq) |-> F(seq[i])])

\* C14 as stated: the span of Var, Cons, Opr and Mod is the number of code
\* points of the name, and the span of Blank is 1.
C14_IdentifierSpans ==
    last.op = "shape_span"
        => /\ last.shape.tag \in {"Var", "Cons", "Opr", "Mod"}
                 => last.res = Ok(Len(last.shape.name))
           /\ last.shape.tag = "Blank" => last.res = Ok(1)

\* C15: the span of a Number is the length of its digits, plus the length
\* of the base and 1 when a base is present.
C15_NumberSpan ==
    (last.op = "shape_span" /\ last.shape.tag = "Number")
        => /\ last.res = Ok(IF last.shape.base = None
                            THEN Len(last.shape.int)
                            ELSE Len(last.shape.base[1]) + 1
                                     + Len(last.shape.int))
           /\ last.shape = Number(Some("16"), "ff") => last.res = Ok(5)

\* the span of Number{base: "16", int: "ff"} has been computed
C15_Witness ==
    /\ last.op = "shape_span"
    /\ last.shape = Number(Some("16"), "ff")
    /\ last.res = Ok(5)

\* C16: the span of a raw or formatted text line is 2 plus the sum of the
\* spans of its segments; without segments it is 2.
C16_TextLineSpan ==
    (last.op = "shape_span"
         /\ last.shape.tag \in {"TextLineRaw", "TextLineFmt"})
        => /\ last.res = Ok(2 + SumOver(last.shape.text, SpanOfSeg))
           /\ last.shape.text = <<>> => last.res = Ok(2)

\* the span of a formatted line of two segments, an expression among them,
\* has been computed
C16_Witness ==
    /\ last.op = "shape_span"
    /\ last.shape.tag = "TextLineFmt"
    /\ Len(last.shape.text) = 2
    /\ last.shape.text[1].tag = "SegmentExpr"
    /\ last.res.ok
    /\ last.res.val > 4

\* C17: the span of a raw or formatted text block is 3 + its leading spaces
\* + over its lines the sum of (the blank-line gaps + the number of blank
\* lines + 1 + the block offset + the spans of the segments); without
\* lines it is 3 + spaces.
C17_TextBlockSpan ==
    (last.op = "shape_span"
         /\ last.shape.tag \in {"TextBlockRaw", "TextBlockFmt"})
        => LET LineSpan(line) ==
                   SumInts(line.empty_lines) + Len(line.empty_lines) + 1
                       + last.shape.offset + SumOver(line.text, SpanOfSeg)
           IN  /\ last.res = Ok(3 + last.shape.spaces
                                  + SumOver(last.shape.text, LineSpan))
               /\ last.shape.text = <<>>
                     => last.res = Ok(3 + last.shape.spaces)

\* the span of a raw block of two lines, with blank lines before one of
\* them, leading spaces and an offset, has been computed
C17_Witness ==
    /\ last.op = "shape_span"
    /\ last.shape.tag = "TextBlockRaw"
    /\ Len(last.shape.text) = 2
    /\ last.shape.text[1].empty_lines = <<1, 2>>
    /\ last.shape.text[2].text # <<>>
    /\ last.shape.spaces = 2
    /\ last.shape.offset > 0
    /\ last.res.ok

\* C18: the span of an expression segment is the span of the expression
\* (0 without one) + 2; the span of an escape segment is 1 + the span of its
\* code: 1 for a character, the name's length for a control escape, the
\* digits for a numeric one, 1 + digits for the 16-bit and the 32-bit
\* unicode forms and 3 + digits for the 21-bit form.
C18_FmtSegmentSpan ==
    last.op = "segment_span"
        => /\ last.seg.tag = "SegmentExpr"
                 => last.res = Ok((IF last.seg.value = None THEN 0
                                   ELSE SpanOfKid(last.seg.value[1])) + 2)
           /\ last.seg.tag = "SegmentEscape"
                 => LET code == last.seg.code
                    IN  last.res =
                          Ok(1 + CASE code.tag = "Character" -> 1
                                   [] code.tag = "Control" -> Len(code.name)
                                   [] code.tag = "Number" -> Len(code.digits)
                                   [] code.tag = "Unicode16" ->
                                          1 + Len(code.digits)
                                   [] code.tag = "Unicode21" ->
                                          3 + Len(code.digits)
                                   [] code.tag = "Unicode32" ->
                                          1 + Len(code.digits))

\* the span of a 21-bit unicode escape segment has been computed
C18_Witness ==
    /\ last.op = "segment_span"
    /\ last.seg.tag = "SegmentEscape"
    /\ last.seg.code.tag = "Unicode21"
    /\ last.res = Ok(9)

\* C19: the span of an application is the sum of its parts, each child
\* contributing its own span: Prefix = func + off + arg, Infix = larg + loff
\* + opr + roff + rarg, SectionLeft = arg + off + opr, SectionRight = opr +
\* off + arg, SectionSides = opr.
C19_ApplicationSpan ==
    last.op = "shape_span"
        => LET x == last.shape
           IN  /\ x.tag = "Prefix"
                     => last.res = Ok(SpanOfKid(x.func) + x.off
                                          + SpanOfKid(x.arg))
               /\ x.tag = "Infix"
                     => last.res = Ok(SpanOfKid(x.larg) + x.loff
                                          + SpanOfKid(x.opr) + x.roff
                                          + SpanOfKid(x.rarg))
               /\ x.tag = "SectionLeft"
                     => last.res = Ok(SpanOfKid(x.arg) + x.off
                                          + SpanOfKid(x.opr))
               /\ x.tag = "SectionRight"
                     => last.res = Ok(SpanOfKid(x.opr) + x.off
                                          + SpanOfKid(x.arg))
               /\ x.tag = "SectionSides"
                     => last.res = Ok(SpanOfKid(x.opr))

\* the span of an infix application with unequal offsets and unequal
\* arguments has been computed
C19_Witness ==
    /\ last.op = "shape_span"
    /\ last.shape.tag = "Infix"
    /\ last.shape.loff # last.shape.roff
    /\ last.shape.larg # last.shape.rarg
    /\ last.res.ok

\* C20: the span of a Module of n >= 1 lines is the sum over its lines of
\* (the span of the element, 0 for an empty line, + the offset) plus n - 1;
\* the span of a Module without lines fails.
C20_ModuleSpan ==
    (last.op = "shape_span" /\ last.shape.tag = "Module")
        => LET lines == last.shape.lines
               LineSpan(line) ==
                   (IF line.elem = None THEN 0 ELSE SpanOfKid(line.elem[1]))
                       + line.off
           IN  /\ Len(lines) >= 1
                     => last.res = Ok(SumOver(lines, LineSpan)
                                          + Len(lines) - 1)
               /\ Len(lines) = 0
                     => /\ ~last.res.ok
                        /\ last.res = Panic(ModuleAssertion)

\* the span of a Module of two lines, the second one empty, has been
\* computed
C20_Witness ==
    /\ last.op = "shape_span"
    /\ last.shape.tag = "Module"
    /\ Len(last.shape.lines) = 2
    /\ last.shape.lines[1].elem # None
    /\ last.shape.lines[2].elem = None
    /\ last.shape.lines[2].off > 0
    /\ last.res.ok

\* C21: the span of a Block is (1 unless it is an orphan) + the sum over
\* its leading empty lines of (gap + 1) + (indent + span of the first line)
\* + the sum over the remaining lines of (1 + indent when the line holds an
\* element + span of the line), a line's span being the span of its element
\* (0 when empty) + its offset.
C21_BlockSpan ==
    (last.op = "shape_span" /\ last.shape.tag = "Block")
        => LET b == last.shape
               Gap(g) == g + 1
               LineSpan(line) ==
                   (IF line.elem = None THEN 0 ELSE SpanOfKid(line.elem[1]))
                       + line.off
               Rest(line) ==
                   1 + (IF line.elem = None THEN 0 ELSE b.indent)
                     + LineSpan(line)
           IN  last.res =
                   Ok((IF b.is_orphan THEN 0 ELSE 1)
                      + SumOver(b.empty_lines, Gap)
                      + (b.indent + SpanOfKid(b.first_line.elem)
                                  + b.first_line.off)
                      + SumOver(b.lines, Rest))

\* the span of an indented Block that is no orphan, with leading empty
\* lines, an empty remaining line and a remaining line with an element,
\* has been computed
C21_Witness ==
    /\ last.op = "shape_span"
    /\ last.shape.tag = "Block"
    /\ ~last.shape.is_orphan
    /\ last.shape.indent > 0
    /\ Len(last.shape.empty_lines) = 2
    /\ Len(last.shape.lines) = 2
    /\ last.shape.lines[1].elem = None
    /\ last.shape.lines[2].elem # None
    /\ last.res.ok

\* C22: the span of an unclosed text line is the span of the line it wraps
\* minus 1, for raw and for formatted lines; the line's span is at least
\* its two quotes, so the subtraction stays at or above zero.
C22_TextUnclosedSpan ==
    (last.op = "shape_span" /\ last.shape.tag = "TextUnclosed")
        => LET line == span_TextLine(last.shape.line)
           IN  line.ok => /\ last.res.ok
                          /\ line.val >= 1
                          /\ last.res.val = line.val - 1
                          /\ last.res.val >= 0

\* the span of an unclosed formatted line with two segments has been
\* computed
C22_Witness ==
    /\ last.op = "shape_span"
    /\ last.shape.tag = "TextUnclosed"
    /\ last.shape.line.tag = "TextLineFmt"
    /\ Len(last.shape.line.text) = 2
    /\ last.res.ok
    /\ last.res.val > 1

\* the leaves of a Builder, first part before second part
RECURSIVE LeavesOf(_)
LeavesOf(b) ==
    IF b.tag = "Seq" THEN LeavesOf(b.first) \o LeavesOf(b.second)
    ELSE <<b>>

\* C23: the span of a Builder is 0 for Empty, 1 for a character, the
\* stored width for a space run, the length in code points for a text, and
\* for a concatenation the sum of the spans of first and second: the span
\* of a nested concatenation is the sum of the spans of its leaves.
C23_BuilderSpan ==
    (last.op = "shape_span"
        /\ last.shape.tag \in {"InvalidQuote", "InlineBlock"})
        => LET LeafSpan(b) ==
                   CASE b.tag = "Empty"  -> 0
                     [] b.tag = "Letter" -> 1
                     [] b.tag = "Space"  -> b.span
                     [] b.tag = "Text"   -> Len(b.str)
           IN  last.res = Ok(SumOver(LeavesOf(last.shape.quote), LeafSpan))

\* the span of a concatenation nested on its first side, with a text
\* among its leaves and a space run as its second part, has been computed
C23_Witness ==
    /\ last.op = "shape_span"
    /\ last.shape.tag = "InvalidQuote"
    /\ last.shape.quote.tag = "Seq"
    /\ last.shape.quote.first.tag = "Seq"
    /\ last.shape.quote.first.second.tag = "Text"
    /\ last.shape.quote.second.tag = "Space"
    /\ last.shape.quote.second.span > 0
    /\ last.res.ok
    /\ last.res.val = 3 + MaxSpan

\* C24: the branches of a Tree are read back in the order they were
\* supplied, none re-sorted, merged or dropped even when sibling keys are
\* equal, and encoding then decoding the tree gives the same branches in
\* the same order.
C24_TreeBranchOrder ==
    last.op = "tree"
        => /\ last.tree.branches = last.branches
           /\ HasKey(last.json, "branches")
           /\ LET arr == Lookup(last.json, "branches")
              IN  /\ arr.j = "arr"
                  /\ Len(arr.v) = Len(last.branches)
                  /\ \A i \in 1..Len(arr.v) :
                        arr.v[i] =
                            JArr(<< Ast_serialize(last.branches[i][1]),
                                    Serialize(KStruct("Tree"),
                                              last.branches[i][2]) >>)
           /\ last.back.ok
           /\ last.back.val.branches = last.branches
           /\ last.back.val = last.tree

\* a tree whose two branches have the same key and different subtrees,
\* the second of them holding branches out of key order, went through
\* encode and decode
C24_Witness ==
    /\ last.op = "tree"
    /\ Len(last.branches) = 2
    /\ last.branches[1][1] = last.branches[2][1]
    /\ last.branches[1][2] # last.branches[2][2]
    /\ Len(last.branches[2][2].branches) = 2
    /\ last.branches[2][2].branches[1][1] = Ast_var("foo")
    /\ last.branches[2][2].branches[2][1] = Ast_var("a")
    /\ last.back.ok

\* the keys of an object, as a set
KeySet(obj) == { obj.v[i][1] : i \in 1..Len(obj.v) }

C28_StructuralEquality ==
    last.op = "compared"
        => LET a == last.a.ast
               b == last.b.ast
           IN  /\ last.a.ptr # last.b.ptr
               /\ last.res <=> (/\ shape(a) = shape(b)
                                /\ IdOf(a) = IdOf(b)
                                /\ StoredSpan(a) = StoredSpan(b))
               /\ last.copy.ptr = last.a.ptr
               /\ last.res_copy

\* two nodes built apart that differ only in the id of a child have been
\* compared and found unequal, and the first equals its clone
C28_Witness ==
    /\ last.op = "compared"
    /\ shape(last.a.ast).tag = "Prefix"
    /\ shape(last.b.ast).tag = "Prefix"
    /\ IdOf(last.a.ast) = IdOf(last.b.ast)
    /\ StoredSpan(last.a.ast) = StoredSpan(last.b.ast)
    /\ shape(shape(last.a.ast).func) = shape(shape(last.b.ast).func)
    /\ IdOf(shape(last.a.ast).func) # IdOf(shape(last.b.ast).func)
    /\ ~last.res
    /\ last.res_copy

\* the nodes below the nodes of the stack
BelowStack ==
    { q \in SubtreePaths(Held) :
        \E i \in 1..Len(nodes) :
            /\ Len(nodes[i]) < Len(q)
            /\ SubSeq(q, 1, Len(nodes[i])) = nodes[i] }

\* C29: at every step of a traversal the work stack holds only nodes not
\* yet yielded, and the nodes yielded, the nodes on the stack and the
\* descendants of the nodes on the stack are together exactly the nodes of
\* the start node's subtree (each in one of the three); the traversal ends
\* exactly when the stack is empty.  A node is a place in the tree.
C29_WorkStack ==
    /\ [](pc = "running"
             => /\ NoDuplicates(nodes)
                /\ Range(nodes) \cap Range(yielded) = {}
                /\ Range(nodes) \cap BelowStack = {}
                /\ Range(yielded) \cap BelowStack = {}
                /\ Range(yielded) \cup Range(nodes) \cup BelowStack
                       = SubtreePaths(Held))
    /\ [](pc = "done" => nodes = <<>>)
    /\ [][pc = "running" => (pc' = "done" <=> nodes = <<>>)]_vars

\* a traversal is under way with two nodes on the stack, one of them with
\* descendants, after three nodes were yielded
C29_Witness ==
    /\ pc = "running"
    /\ Len(nodes) = 2
    /\ Len(yielded) = 3
    /\ BelowStack # {}

\* how many times the value v has been yielded, and in how many places of
\* the tree it is held
TimesYielded(v) ==
    Cardinality({ i \in 1..Len(yielded) : NodeAt(Held, yielded[i]) = v })
Places(v) ==
    Cardinality({ p \in SubtreePaths(Held) : NodeAt(Held, p) = v })

\* C30: a traversal yields one item for each path from the start node: a
\* value held as a child in k places is yielded k times, and so is each
\* node of its subtree, and the number of items is the number of places,
\* not the number of distinct values.
C30_SharedNodesYieldedPerPlace ==
    pc = "done"
        => /\ Len(yielded) = Cardinality(SubtreePaths(Held))
           /\ Len(yielded) = NodeCount(Held)
           /\ \A p \in SubtreePaths(Held) :
                 TimesYielded(NodeAt(Held, p)) = Places(NodeAt(Held, p))
           /\ \A k \in 1..Len(into_iter(Held)) :
                 LET kid  == into_iter(Held)[k]
                     held == Cardinality({ i \in 1..Len(into_iter(Held)) :
                                             into_iter(Held)[i] = kid })
                 IN  \A q \in SubtreePaths(kid) :
                        TimesYielded(NodeAt(kid, q)) >= held

\* a traversal has ended of a tree that holds one value with a child of
\* its own in three places: the value was yielded three times and the
\* items are more than the distinct values
C30_Witness ==
    /\ pc = "done"
    /\ shape(Held).tag = "Infix"
    /\ shape(Held).larg = shape(Held).opr
    /\ shape(Held).opr = shape(Held).rarg
    /\ into_iter(shape(Held).larg) # <<>>
    /\ TimesYielded(shape(Held).larg) = 3
    /\ Len(yielded) = 7
    /\ Cardinality({ NodeAt(Held, yielded[i]) : i \in 1..Len(yielded) }) = 3

====
